---- MODULE Spec2Model ----
(***************************************************************************)
(* HexSweeper: the game engine of src/hexsweeper/hexgrid.py and            *)
(* src/hexsweeper/tile.py as a state machine.                              *)
(*                                                                         *)
(* A state is a HexGrid object between two event handlers: its size, its   *)
(* mine count, the nested list of tiles, the generated flag and the        *)
(* session clock.  One action is one complete handler call                 *)
(* (primary_click, secondary_click, restart_game), or the passing of time. *)
(* Coordinates are 0-based as in the source; the nested list self.grid is  *)
(* a sequence of rows, so self.grid[y][x] is grid[y + 1][x + 1].           *)
(***************************************************************************)
EXTENDS Integers, Sequences, FiniteSets, TLC

VARIABLES
    size,                       \* HexGrid.size
    mine_count,                 \* HexGrid.mine_count
    grid,                       \* HexGrid.grid: rows of Tile records
    mines_have_been_generated,  \* HexGrid.mines_have_been_generated
    start_time,                 \* HexGrid.start_time
    now,                        \* the value time.time() returns
    last,                       \* what the last handler call did (its log)
    queue,                      \* reveal_mines_from: its local list queue
    complete                    \* reveal_mines_from: its local list complete

vars == <<size, mine_count, grid, mines_have_been_generated,
          start_time, now, last, queue, complete>>

(***************************************************************************)
(* Bounds of the exploration.                                              *)
(***************************************************************************)
\* time.time() is followed for this many ticks (specification SpecClock).
MaxTime == 1

\* The smallest board the difficulty form offers.
MinSize == 2

\* Boards (size, mine_count) the game specification constructs and restarts
\* into: the smallest board with no mine, one mine and the highest possible
\* mine count.
Boards ==
    {<<MinSize, 0>>, <<MinSize, 1>>,
     <<MinSize, 3 * MinSize * MinSize - 3 * MinSize>>}

\* The board of the clock specification.
ClockBoards == {<<MinSize, 1>>}

\* An Optional[int] argument: <<>> is None, <<v>> is the value v.
None == <<>>
Some(v) == <<v>>

Min(a, b) == IF a < b THEN a ELSE b

(***************************************************************************)
(* Coordinate geometry (HexGrid, parametrised by self.size = s).           *)
(***************************************************************************)
row_count(s) == 2 * s - 1

cell_count_in_row(s, field_y) == s + Min(field_y, 2 * s - 2 - field_y)

highest_row_cell_count(s) == 2 * s - 1

highest_possible_mine_count_for_size(s) == (3 * s * s - 3 * s + 1) - 1

RECURSIVE coords_from_row(_, _)
coords_from_row(s, field_y) ==
    IF field_y >= row_count(s) THEN <<>>
    ELSE [i \in 1..cell_count_in_row(s, field_y) |-> <<i - 1, field_y>>]
         \o coords_from_row(s, field_y + 1)

\* The list of (x, y) tuples, row by row.
all_valid_coords(s) == coords_from_row(s, 0)

is_y_valid(s, field_y) == 0 <= field_y /\ field_y < row_count(s)

\* is_x_valid that lets field_x be the cell count of the row.
is_x_valid_inclusive(s, field_x, field_y) ==
    0 <= field_x /\ field_x <= cell_count_in_row(s, field_y)

is_x_valid(s, field_x, field_y) ==
    0 <= field_x /\ field_x < cell_count_in_row(s, field_y)

is_position_valid(s, field_x, field_y) ==
    is_y_valid(s, field_y) /\ is_x_valid(s, field_x, field_y)

Range(seq) == {seq[i] : i \in 1..Len(seq)}

\* list(filter(...)): the elements of seq that lie in the set keep, in order.
FilterSeq(seq, keep) == SelectSeq(seq, LAMBDA e : e \in keep)

\* possible_positions that treats the center row like the rows above it.
possible_positions_unbent(s, field_x, field_y) ==
    << <<field_x, field_y + 1>>,
       <<field_x, field_y - 1>>,
       <<field_x + 1, field_y>>,
       <<field_x - 1, field_y>> >>
    \o (IF field_y <= s - 1
          THEN << <<field_x + 1, field_y + 1>>, <<field_x - 1, field_y - 1>> >>
        ELSE << <<field_x + 1, field_y - 1>>, <<field_x - 1, field_y + 1>> >>)

possible_positions(s, field_x, field_y) ==
    << <<field_x, field_y + 1>>,
       <<field_x, field_y - 1>>,
       <<field_x + 1, field_y>>,
       <<field_x - 1, field_y>> >>
    \o (IF field_y < s - 1
          THEN << <<field_x + 1, field_y + 1>>, <<field_x - 1, field_y - 1>> >>
        ELSE IF field_y = s - 1
          THEN << <<field_x - 1, field_y + 1>>, <<field_x - 1, field_y - 1>> >>
        ELSE << <<field_x + 1, field_y - 1>>, <<field_x - 1, field_y + 1>> >>)

adjacent_positions(s, field_x, field_y) ==
    SelectSeq(possible_positions(s, field_x, field_y),
              LAMBDA p : is_position_valid(s, p[1], p[2]))

(***************************************************************************)
(* Tile (src/hexsweeper/tile.py).                                          *)
(***************************************************************************)
NewTile == [revealed |-> FALSE, mine |-> FALSE, flag |-> FALSE]

is_revealed(t) == t.revealed
has_mine(t) == t.mine
has_flag(t) == t.flag

\* HexGrid.__getitem__: self.grid[field_y][field_x]
TileAt(g, pos) == g[pos[2] + 1][pos[1] + 1]

\* self[pos] replaced by the tile t (tiles are mutated in place in the source)
PutTile(g, pos, t) ==
    [g EXCEPT ![pos[2] + 1] = [@ EXCEPT ![pos[1] + 1] = t]]

\* adjacent_mine_count that counts the tile itself as well.
adjacent_mine_count_with_self(s, g, field_x, field_y) ==
    Len(SelectSeq(<< <<field_x, field_y>> >>
                    \o adjacent_positions(s, field_x, field_y),
                  LAMBDA p : has_mine(TileAt(g, p))))

adjacent_mine_count(s, g, field_x, field_y) ==
    Len(SelectSeq(adjacent_positions(s, field_x, field_y),
                  LAMBDA p : has_mine(TileAt(g, p))))

has_adjacent_mines(s, g, pos) == adjacent_mine_count(s, g, pos[1], pos[2]) > 0

\* Tile.color of the tile at pos, were its flag field set to flagval.
color(s, g, pos, flagval) ==
    LET t == TileAt(g, pos)
    IN  IF is_revealed(t)
          THEN IF has_mine(t) THEN "red"
               ELSE IF has_adjacent_mines(s, g, pos) THEN "orange"
               ELSE "lightgreen"
        ELSE IF flagval THEN "purple"
        ELSE "lightblue"

\* can_toggle_flag that allows every tile.
can_toggle_flag_always(s, g, pos) == TRUE

can_toggle_flag(s, g, pos) ==
    IF has_flag(TileAt(g, pos)) THEN TRUE
    ELSE color(s, g, pos, FALSE) # color(s, g, pos, TRUE)

\* can_toggle_flag that leaves the flag it set for the comparison.
can_toggle_flag_call_unrestored(s, g, pos) ==
    IF has_flag(TileAt(g, pos)) THEN [value |-> TRUE, grid |-> g]
    ELSE LET old_color == color(s, g, pos, has_flag(TileAt(g, pos)))
             g1 == PutTile(g, pos, [TileAt(g, pos) EXCEPT !.flag = TRUE])
             new_color == color(s, g1, pos, has_flag(TileAt(g1, pos)))
         IN  [value |-> old_color # new_color, grid |-> g1]

\* Tile.can_toggle_flag statement by statement: the value it returns and
\* the grid it leaves (it writes self._flag twice).
can_toggle_flag_call(s, g, pos) ==
    IF has_flag(TileAt(g, pos)) THEN [value |-> TRUE, grid |-> g]
    ELSE LET old_color == color(s, g, pos, has_flag(TileAt(g, pos)))
             g1 == PutTile(g, pos, [TileAt(g, pos) EXCEPT !.flag = TRUE])
             new_color == color(s, g1, pos, has_flag(TileAt(g1, pos)))
             g2 == PutTile(g1, pos, [TileAt(g1, pos) EXCEPT !.flag = FALSE])
         IN  [value |-> old_color # new_color, grid |-> g2]

change_into_mine(t) == [t EXCEPT !.mine = TRUE]

set_flag(s, g, pos) ==
    IF has_flag(TileAt(g, pos)) THEN g
    ELSE IF ~can_toggle_flag(s, g, pos) THEN g
    ELSE PutTile(g, pos, [TileAt(g, pos) EXCEPT !.flag = TRUE])

\* unset_flag that also reveals the tile.
unset_flag_revealing(s, g, pos) ==
    IF ~has_flag(TileAt(g, pos)) THEN g
    ELSE IF ~can_toggle_flag(s, g, pos) THEN g
    ELSE PutTile(g, pos, [TileAt(g, pos) EXCEPT !.flag = FALSE,
                                                !.revealed = TRUE])

\* unset_flag that leaves the flag where it is.
unset_flag_kept(s, g, pos) == g

unset_flag(s, g, pos) ==
    IF ~has_flag(TileAt(g, pos)) THEN g
    ELSE IF ~can_toggle_flag(s, g, pos) THEN g
    ELSE PutTile(g, pos, [TileAt(g, pos) EXCEPT !.flag = FALSE])

\* reveal without the flag check.
reveal_ignoring_flag(t) == [t EXCEPT !.revealed = TRUE]

\* reveal that flips the revealed field instead of setting it.
reveal_toggling(t) == IF ~has_flag(t) THEN [t EXCEPT !.revealed = ~@] ELSE t

reveal(t) == IF ~has_flag(t) THEN [t EXCEPT !.revealed = TRUE] ELSE t

reveal_at(g, pos) == PutTile(g, pos, reveal(TileAt(g, pos)))

(***************************************************************************)
(* HexGrid: construction and the grid-wide queries.                        *)
(***************************************************************************)
\* The rows of fresh tiles __init_game builds for size s.
blank_grid(s) ==
    [r \in 1..row_count(s) |->
        [c \in 1..cell_count_in_row(s, r - 1) |-> NewTile]]

\* __init_game validating with >= instead of >.
init_game_strict(st, s, m, t) ==
    IF m >= highest_possible_mine_count_for_size(s)
      THEN [st EXCEPT !.ok = FALSE]
    ELSE [ok |-> TRUE,
          size |-> s,
          grid |-> blank_grid(s),
          start_time |-> t,
          mine_count |-> m,
          mines_have_been_generated |-> FALSE]

\* __init_game that leaves mines_have_been_generated as it is.
init_game_keeping_generated(st, s, m, t) ==
    IF m > highest_possible_mine_count_for_size(s)
      THEN [st EXCEPT !.ok = FALSE]
    ELSE [ok |-> TRUE,
          size |-> s,
          grid |-> blank_grid(s),
          start_time |-> t,
          mine_count |-> m,
          mines_have_been_generated |-> st.mines_have_been_generated]

\* __init_game that stores size and mine_count before it validates.
init_game_assigning_first(st, s, m, t) ==
    IF m > highest_possible_mine_count_for_size(s)
      THEN [st EXCEPT !.ok = FALSE, !.size = s, !.mine_count = m]
    ELSE [ok |-> TRUE,
          size |-> s,
          grid |-> blank_grid(s),
          start_time |-> t,
          mine_count |-> m,
          mines_have_been_generated |-> FALSE]

\* HexGrid.__init_game on the object st (a record of the HexGrid fields) at
\* time t: ok = FALSE is the ValueError, raised before any assignment.
init_game(st, s, m, t) ==
    IF m > highest_possible_mine_count_for_size(s)
      THEN [st EXCEPT !.ok = FALSE]
    ELSE [ok |-> TRUE,
          size |-> s,
          grid |-> blank_grid(s),
          start_time |-> t,
          mine_count |-> m,
          mines_have_been_generated |-> FALSE]

\* The HexGrid fields of the current state.
Self ==
    [ok |-> TRUE,
     size |-> size,
     grid |-> grid,
     start_time |-> start_time,
     mine_count |-> mine_count,
     mines_have_been_generated |-> mines_have_been_generated]

RECURSIVE count_flags(_, _)
count_flags(g, coords) ==
    IF coords = <<>> THEN 0
    ELSE (IF has_flag(TileAt(g, Head(coords))) THEN 1 ELSE 0)
         + count_flags(g, Tail(coords))

total_flag_count(s, g) == count_flags(g, all_valid_coords(s))

\* flag_limit_reached comparing with > instead of >=.
flag_limit_reached_strict(s, g, m) == total_flag_count(s, g) > m

flag_limit_reached(s, g, m) == total_flag_count(s, g) >= m

\* "not x" for an Optional[int] x: it holds of None and of 0.
not_arg(x) == x = None \/ x = Some(0)

\* The size restart_game hands to __init_game.
restart_size(st, a_size) == IF not_arg(a_size) THEN st.size ELSE a_size[1]

\* The mine count restart_game hands to __init_game.
restart_mine_count(st, a_mine_count) ==
    IF not_arg(a_mine_count) THEN st.mine_count ELSE a_mine_count[1]

\* restart_game(size = a_size, mine_count = a_mine_count) on st at time t.
restart_game(st, a_size, a_mine_count, t) ==
    init_game(st, restart_size(st, a_size),
              restart_mine_count(st, a_mine_count), t)

(***************************************************************************)
(* Mine generation and the flood fill.                                     *)
(***************************************************************************)
RECURSIVE KSubsets(_, _)
\* The outcomes of random.sample(population, k), as sets: every k-element
\* subset; none when k is out of range (random.sample raises).
KSubsets(S, k) ==
    IF k < 0 \/ Cardinality(S) < k THEN {}
    ELSE IF k = 0 THEN {{}}
    ELSE LET e == CHOOSE e \in S : TRUE
         IN  KSubsets(S \ {e}, k) \cup
             {T \cup {e} : T \in KSubsets(S \ {e}, k - 1)}

\* possible_mine_locations with the clicked position left in.
possible_mine_locations_all(s, field_x, field_y) ==
    Range(all_valid_coords(s))

\* possible_mine_locations after the clicked position has been removed
possible_mine_locations(s, field_x, field_y) ==
    Range(all_valid_coords(s)) \ {<<field_x, field_y>>}

\* What random.sample(possible_mine_locations, k) can do: <<S>> for every
\* k-element subset S, or <<>> alone when k is out of range (it raises).
sample_outcomes(population, k) ==
    LET K == KSubsets(population, k)
    IN  IF K = {} THEN {<<>>} ELSE {<<S>> : S \in K}

\* try_generate_mines without the early return: it samples on every call.
try_generate_mines_again(st, field_x, field_y, sample, t) ==
    LET drawn == IF sample # <<>> THEN sample[1]
                 ELSE CHOOSE S \in KSubsets(
                        possible_mine_locations(st.size, field_x, field_y),
                        st.mine_count) : TRUE
    IN  [st EXCEPT
            !.grid = [r \in DOMAIN st.grid |->
                        [c \in DOMAIN st.grid[r] |->
                            IF <<c - 1, r - 1>> \in drawn
                              THEN change_into_mine(st.grid[r][c])
                            ELSE st.grid[r][c]]],
            !.mines_have_been_generated = TRUE,
            !.start_time = t]

\* try_generate_mines that never sets mines_have_been_generated.
try_generate_mines_unmarked(st, field_x, field_y, sample, t) ==
    IF st.mines_have_been_generated THEN st
    ELSE IF sample = <<>> THEN [st EXCEPT !.ok = FALSE]
    ELSE [st EXCEPT
            !.grid = [r \in DOMAIN st.grid |->
                        [c \in DOMAIN st.grid[r] |->
                            IF <<c - 1, r - 1>> \in sample[1]
                              THEN change_into_mine(st.grid[r][c])
                            ELSE st.grid[r][c]]],
            !.start_time = t]

\* try_generate_mines that leaves the session clock alone.
try_generate_mines_unclocked(st, field_x, field_y, sample, t) ==
    IF st.mines_have_been_generated THEN st
    ELSE IF sample = <<>> THEN [st EXCEPT !.ok = FALSE]
    ELSE [st EXCEPT
            !.grid = [r \in DOMAIN st.grid |->
                        [c \in DOMAIN st.grid[r] |->
                            IF <<c - 1, r - 1>> \in sample[1]
                              THEN change_into_mine(st.grid[r][c])
                            ELSE st.grid[r][c]]],
            !.mines_have_been_generated = TRUE]

\* try_generate_mines(field_x, field_y) on st at time t, sample being what
\* random.sample did; ok = FALSE is its ValueError.
try_generate_mines(st, field_x, field_y, sample, t) ==
    IF st.mines_have_been_generated THEN st
    ELSE IF sample = <<>> THEN [st EXCEPT !.ok = FALSE]
    ELSE [st EXCEPT
            !.grid = [r \in DOMAIN st.grid |->
                        [c \in DOMAIN st.grid[r] |->
                            IF <<c - 1, r - 1>> \in sample[1]
                              THEN change_into_mine(st.grid[r][c])
                            ELSE st.grid[r][c]]],
            !.mines_have_been_generated = TRUE,
            !.start_time = t]

RECURSIVE visit_adjacent_all(_, _, _, _)
\* The inner loop queueing every adjacent tile, whatever its mine count.
visit_adjacent_all(s, g, q, adjacent_tiles) ==
    IF adjacent_tiles = <<>> THEN [grid |-> g, queue |-> q]
    ELSE LET adj_tile == Head(adjacent_tiles)
             g1 == reveal_at(g, adj_tile)
         IN  visit_adjacent_all(s, g1, Append(q, adj_tile),
                                Tail(adjacent_tiles))

RECURSIVE visit_adjacent_near(_, _, _, _)
\* The inner loop queueing also the tiles with one adjacent mine.
visit_adjacent_near(s, g, q, adjacent_tiles) ==
    IF adjacent_tiles = <<>> THEN [grid |-> g, queue |-> q]
    ELSE LET adj_tile == Head(adjacent_tiles)
             g1 == reveal_at(g, adj_tile)
             q1 == IF adjacent_mine_count(s, g1, adj_tile[1], adj_tile[2]) <= 1
                     THEN Append(q, adj_tile) ELSE q
         IN  visit_adjacent_near(s, g1, q1, Tail(adjacent_tiles))

RECURSIVE visit_adjacent(_, _, _, _)
\* The inner loop of reveal_mines_from over adjacent_tiles.
visit_adjacent(s, g, q, adjacent_tiles) ==
    IF adjacent_tiles = <<>> THEN [grid |-> g, queue |-> q]
    ELSE LET adj_tile == Head(adjacent_tiles)
             g1 == reveal_at(g, adj_tile)
             q1 == IF adjacent_mine_count(s, g1, adj_tile[1], adj_tile[2]) = 0
                     THEN Append(q, adj_tile) ELSE q
         IN  visit_adjacent(s, g1, q1, Tail(adjacent_tiles))

\* "while queue:" -- the loop goes on as long as the queue is non-empty.
flood_continues(q) == q # <<>>

\* del q[i - 1] (Python counts from 0): the list q without its i-th entry.
del_at(q, i) == SubSeq(q, 1, i - 1) \o SubSeq(q, i + 1, Len(q))

\* The loop body that expands an entry although it is in complete.
flood_iteration_at_unchecked(s, g, q, done, i, adjacent_tiles) ==
    LET current == q[i]
        g1 == reveal_at(g, current)
        r == visit_adjacent(s, g1, del_at(q, i), adjacent_tiles)
    IN  [grid |-> r.grid, queue |-> r.queue,
         complete |-> Append(done, current)]

\* The loop body that leaves the loop (break) at an entry that is in complete.
flood_iteration_at_break(s, g, q, done, i, adjacent_tiles) ==
    IF q[i] \in Range(done)
      THEN [grid |-> g, queue |-> <<>>, complete |-> done]
    ELSE LET current == q[i]
             g1 == reveal_at(g, current)
             r == visit_adjacent(s, g1, del_at(q, i), adjacent_tiles)
         IN  [grid |-> r.grid, queue |-> r.queue,
              complete |-> Append(done, current)]

\* One pass through the body of the while loop of reveal_mines_from, taking
\* the i-th entry of the queue q (the source takes the first, queue[0]) and
\* visiting its adjacent positions in the order of the list adjacent_tiles
\* (the source takes the order of adjacent_positions): the grid, the queue
\* and the list complete afterwards.
flood_iteration_at(s, g, q, done, i, adjacent_tiles) ==
    IF q[i] \in Range(done)
      THEN [grid |-> g, queue |-> del_at(q, i), complete |-> done]
    ELSE LET current == q[i]
             g1 == reveal_at(g, current)
             r == visit_adjacent(s, g1, del_at(q, i), adjacent_tiles)
         IN  [grid |-> r.grid, queue |-> r.queue,
              complete |-> Append(done, current)]

\* The body of the while loop as the source runs it, on queue[0].
flood_iteration(s, g, q, done) ==
    flood_iteration_at(s, g, q, done, 1,
                       adjacent_positions(s, q[1][1], q[1][2]))

RECURSIVE flood_loop(_, _, _, _)
\* The while loop of reveal_mines_from ("while queue:").
flood_loop(s, g, q, done) ==
    IF ~flood_continues(q) THEN [grid |-> g, complete |-> done]
    ELSE LET r == flood_iteration(s, g, q, done)
         IN  flood_loop(s, r.grid, r.queue, r.complete)

reveal_mines_from(s, g, field_x, field_y) ==
    flood_loop(s, g, << <<field_x, field_y>> >>, <<>>).grid

(***************************************************************************)
(* The game-over evaluator and the click handlers.  A handler is a         *)
(* function from the object st, the mapped position and the time t to a    *)
(* result: the object afterwards (st), what the evaluator decided          *)
(* (outcome), the callbacks invoked in order (events), the object the      *)
(* evaluator examined (seen), the grid on display when a win or loss alert *)
(* was raised (shown) and the duration a win alert states (elapsed).       *)
(***************************************************************************)
NotSeen == [generated |-> FALSE, grid |-> <<>>]

Seen(st) == [generated |-> st.mines_have_been_generated, grid |-> st.grid]

Result(st, outcome, events, seen, shown, elapsed) ==
    [st |-> st, outcome |-> outcome, events |-> events,
     seen |-> seen, shown |-> shown, elapsed |-> elapsed]

\* A handler that returns early, or raises, before it changes anything.
Returned(st) == Result(st, "returned", <<>>, NotSeen, <<>>, 0)
Raised(st) == Result(st, "ValueError", <<>>, NotSeen, <<>>, 0)

\* number_of_safe_hidden_tiles without the "not has_mine" condition.
number_of_hidden_tiles(s, g) ==
    LET coords == all_valid_coords(s)
    IN  Len(FilterSeq(coords,
            {p \in Range(coords) : ~is_revealed(TileAt(g, p))}))

number_of_safe_hidden_tiles(s, g) ==
    LET coords == all_valid_coords(s)
    IN  Len(FilterSeq(coords,
            {p \in Range(coords) :
                ~has_mine(TileAt(g, p)) /\ ~is_revealed(TileAt(g, p))}))

revealed_mine_positions(s, g) ==
    LET coords == all_valid_coords(s)
    IN  FilterSeq(coords,
            {p \in Range(coords) :
                has_mine(TileAt(g, p)) /\ is_revealed(TileAt(g, p))})

RECURSIVE reveal_unflagged(_, _)
\* for pos in coords: if not self[pos].has_flag(): self[pos].reveal()
reveal_unflagged(g, coords) ==
    IF coords = <<>> THEN g
    ELSE reveal_unflagged(
            IF ~has_flag(TileAt(g, Head(coords)))
              THEN reveal_at(g, Head(coords)) ELSE g,
            Tail(coords))

\* The branch of win and loss restarting before it raises the alert.
game_over_restart_first(st, t, outcome, alert, elapsed) ==
    LET g1 == reveal_unflagged(st.grid, all_valid_coords(st.size))
        st1 == [st EXCEPT !.grid = g1]
        st2 == restart_game(st1, None, None, t)
    IN  Result(st2, outcome, <<"redraw", "redraw", alert>>,
               Seen(st), st2.grid, elapsed)

\* The branch of win and loss without the restart: the disclosed grid stays.
game_over_without_restart(st, t, outcome, alert, elapsed) ==
    LET g1 == reveal_unflagged(st.grid, all_valid_coords(st.size))
        st1 == [st EXCEPT !.grid = g1]
    IN  Result(st1, outcome, <<"redraw", alert, "redraw">>,
               Seen(st), g1, elapsed)

\* The branch shared by win and loss: disclose, redraw, alert, restart, redraw.
\* A restart that raises leaves the disclosed grid and skips the last redraw.
game_over(st, t, outcome, alert, elapsed) ==
    LET g1 == reveal_unflagged(st.grid, all_valid_coords(st.size))
        st1 == [st EXCEPT !.grid = g1]
        st2 == restart_game(st1, None, None, t)
    IN  IF st2.ok
          THEN Result(st2, outcome, <<"redraw", alert, "redraw">>,
                      Seen(st), g1, elapsed)
        ELSE Result(st2, "ValueError", <<"redraw", alert>>,
                    Seen(st), g1, elapsed)

\* restart_if_game_is_over testing for the loss (C) before the win (B).
restart_if_game_is_over_loss_first(st, t) ==
    IF ~st.mines_have_been_generated
      THEN Result(st, "Ongoing", <<"redraw">>, Seen(st), <<>>, 0)
    ELSE IF revealed_mine_positions(st.size, st.grid) # <<>>
      THEN game_over(st, t, "Lost", "alert_lost", 0)
    ELSE IF number_of_safe_hidden_tiles(st.size, st.grid) = 0
      THEN game_over(st, t, "Won", "alert_won", t - st.start_time)
    ELSE Result(st, "Ongoing", <<"redraw">>, Seen(st), <<>>, 0)

\* restart_if_game_is_over that also wins when the flags stand exactly on the
\* mines.
restart_if_game_is_over_flag_match(st, t) ==
    IF ~st.mines_have_been_generated
      THEN Result(st, "Ongoing", <<"redraw">>, Seen(st), <<>>, 0)
    ELSE IF (\A p \in Range(all_valid_coords(st.size)) :
                has_flag(TileAt(st.grid, p)) = has_mine(TileAt(st.grid, p)))
            \/ number_of_safe_hidden_tiles(st.size, st.grid) = 0
      THEN game_over(st, t, "Won", "alert_won", t - st.start_time)
    ELSE IF revealed_mine_positions(st.size, st.grid) # <<>>
      THEN game_over(st, t, "Lost", "alert_lost", 0)
    ELSE Result(st, "Ongoing", <<"redraw">>, Seen(st), <<>>, 0)

\* restart_if_game_is_over that does not redraw while the game goes on.
restart_if_game_is_over_silent(st, t) ==
    IF ~st.mines_have_been_generated
      THEN Result(st, "Ongoing", <<>>, Seen(st), <<>>, 0)
    ELSE IF number_of_safe_hidden_tiles(st.size, st.grid) = 0
      THEN game_over(st, t, "Won", "alert_won", t - st.start_time)
    ELSE IF revealed_mine_positions(st.size, st.grid) # <<>>
      THEN game_over(st, t, "Lost", "alert_lost", 0)
    ELSE Result(st, "Ongoing", <<>>, Seen(st), <<>>, 0)

restart_if_game_is_over(st, t) ==
    IF ~st.mines_have_been_generated
      THEN Result(st, "Ongoing", <<"redraw">>, Seen(st), <<>>, 0)
    ELSE IF number_of_safe_hidden_tiles(st.size, st.grid) = 0
      THEN game_over(st, t, "Won", "alert_won", t - st.start_time)
    ELSE IF revealed_mine_positions(st.size, st.grid) # <<>>
      THEN game_over(st, t, "Lost", "alert_lost", 0)
    ELSE Result(st, "Ongoing", <<"redraw">>, Seen(st), <<>>, 0)

\* r with the callbacks `before` invoked ahead of its own.
After(before, r) == [r EXCEPT !.events = before \o @]

\* primary_click that generates the mines before it looks at the flag.
primary_click_generating_first(st, field_x, field_y, sample, t) ==
    IF ~is_position_valid(st.size, field_x, field_y) THEN Returned(st)
    ELSE
      LET st1 == try_generate_mines(st, field_x, field_y, sample, t)
          st2 == [st1 EXCEPT !.grid = reveal_at(@, <<field_x, field_y>>)]
      IN  IF ~st1.ok THEN Raised(st)
          ELSE IF has_flag(TileAt(st.grid, <<field_x, field_y>>))
            THEN Returned(st1)
          ELSE IF adjacent_mine_count(st2.size, st2.grid, field_x, field_y) > 0
            THEN After(<<"redraw">>, restart_if_game_is_over(st2, t))
          ELSE restart_if_game_is_over(
                  [st2 EXCEPT !.grid =
                      reveal_mines_from(st2.size, @, field_x, field_y)], t)

\* primary_click that runs the flood fill whatever the adjacent mine count.
primary_click_always_flooding(st, field_x, field_y, sample, t) ==
    IF ~is_position_valid(st.size, field_x, field_y) THEN Returned(st)
    ELSE IF has_flag(TileAt(st.grid, <<field_x, field_y>>)) THEN Returned(st)
    ELSE
      LET st1 == try_generate_mines(st, field_x, field_y, sample, t)
          st2 == [st1 EXCEPT !.grid = reveal_at(@, <<field_x, field_y>>)]
      IN  IF ~st1.ok THEN Raised(st)
          ELSE After(<<"redraw">>, restart_if_game_is_over(
                  [st2 EXCEPT !.grid =
                      reveal_mines_from(st2.size, @, field_x, field_y)], t))

\* primary_click, the mapper having returned (field_x, field_y); sample is
\* what random.sample does if it is called.
primary_click(st, field_x, field_y, sample, t) ==
    IF ~is_position_valid(st.size, field_x, field_y) THEN Returned(st)
    ELSE IF has_flag(TileAt(st.grid, <<field_x, field_y>>)) THEN Returned(st)
    ELSE
      LET st1 == try_generate_mines(st, field_x, field_y, sample, t)
          st2 == [st1 EXCEPT !.grid = reveal_at(@, <<field_x, field_y>>)]
      IN  IF ~st1.ok THEN Raised(st)
          ELSE IF adjacent_mine_count(st2.size, st2.grid, field_x, field_y) > 0
            THEN After(<<"redraw">>, restart_if_game_is_over(st2, t))
          ELSE restart_if_game_is_over(
                  [st2 EXCEPT !.grid =
                      reveal_mines_from(st2.size, @, field_x, field_y)], t)

\* secondary_click without the flag limit.
secondary_click_no_limit(st, field_x, field_y, t) ==
    LET pos == <<field_x, field_y>>
    IN  IF ~is_position_valid(st.size, field_x, field_y) THEN Returned(st)
        ELSE IF ~can_toggle_flag(st.size, st.grid, pos) THEN Returned(st)
        ELSE IF ~has_flag(TileAt(st.grid, pos))
          THEN restart_if_game_is_over(
                  [st EXCEPT !.grid = set_flag(st.size, @, pos)], t)
        ELSE restart_if_game_is_over(
                [st EXCEPT !.grid = unset_flag(st.size, @, pos)], t)

secondary_click(st, field_x, field_y, t) ==
    LET pos == <<field_x, field_y>>
    IN  IF ~is_position_valid(st.size, field_x, field_y) THEN Returned(st)
        ELSE IF ~can_toggle_flag(st.size, st.grid, pos) THEN Returned(st)
        ELSE IF ~has_flag(TileAt(st.grid, pos))
          THEN IF flag_limit_reached(st.size, st.grid, st.mine_count)
                 THEN Result(st, "refused", <<"alert_flag_limit">>,
                             NotSeen, <<>>, 0)
               ELSE restart_if_game_is_over(
                       [st EXCEPT !.grid = set_flag(st.size, @, pos)], t)
        ELSE restart_if_game_is_over(
                [st EXCEPT !.grid = unset_flag(st.size, @, pos)], t)

(***************************************************************************)
(* The positions a click handler hands to HexGrid.__getitem__ (self[pos]), *)
(* as sets, following the handler statement by statement.                  *)
(***************************************************************************)
\* adjacent_mine_count(field_x, field_y): self[pos] for the adjacent ones.
adjacent_mine_count_subscripts(s, field_x, field_y) ==
    Range(adjacent_positions(s, field_x, field_y))

\* reveal_mines_from(field_x, field_y) on the grid g: the entries expanded,
\* their adjacent tiles, and the tiles adjacent to those.
reveal_mines_from_subscripts(s, g, field_x, field_y) ==
    LET expanded ==
            Range(flood_loop(s, g, << <<field_x, field_y>> >>, <<>>).complete)
        visited ==
            UNION {Range(adjacent_positions(s, c[1], c[2])) : c \in expanded}
    IN  expanded \cup visited
        \cup UNION {adjacent_mine_count_subscripts(s, a[1], a[2]) :
                        a \in visited}

\* restart_if_game_is_over: the two loops over all_valid_coords.
restart_if_game_is_over_subscripts(st) ==
    IF ~st.mines_have_been_generated THEN {}
    ELSE Range(all_valid_coords(st.size))

\* primary_click that subscripts before it checks the position.
primary_click_subscripts_unchecked(st, field_x, field_y, sample) ==
    {<<field_x, field_y>>}

\* primary_click, the mapper having returned (field_x, field_y).
primary_click_subscripts(st, field_x, field_y, sample) ==
    IF ~is_position_valid(st.size, field_x, field_y) THEN {}
    ELSE IF has_flag(TileAt(st.grid, <<field_x, field_y>>))
      THEN {<<field_x, field_y>>}
    ELSE
      LET st1 == try_generate_mines(st, field_x, field_y, sample, 0)
          st2 == [st1 EXCEPT !.grid = reveal_at(@, <<field_x, field_y>>)]
          drawn == IF st.mines_have_been_generated \/ sample = <<>>
                     THEN {} ELSE sample[1]
      IN  IF ~st1.ok THEN {<<field_x, field_y>>}
          ELSE {<<field_x, field_y>>} \cup drawn
               \cup adjacent_mine_count_subscripts(st.size, field_x, field_y)
               \cup (IF adjacent_mine_count(st2.size, st2.grid,
                                            field_x, field_y) > 0
                       THEN restart_if_game_is_over_subscripts(st2)
                     ELSE reveal_mines_from_subscripts(
                              st2.size, st2.grid, field_x, field_y)
                          \cup restart_if_game_is_over_subscripts(st2))

\* secondary_click, the mapper having returned (field_x, field_y).
secondary_click_subscripts(st, field_x, field_y) ==
    LET pos == <<field_x, field_y>>
    IN  IF ~is_position_valid(st.size, field_x, field_y) THEN {}
        ELSE IF ~can_toggle_flag(st.size, st.grid, pos) THEN {pos}
        ELSE IF ~has_flag(TileAt(st.grid, pos))
          THEN {pos} \cup Range(all_valid_coords(st.size))
               \cup (IF flag_limit_reached(st.size, st.grid, st.mine_count)
                       THEN {}
                     ELSE restart_if_game_is_over_subscripts(st))
        ELSE {pos} \cup restart_if_game_is_over_subscripts(st)

(***************************************************************************)
(* The state machine.                                                      *)
(***************************************************************************)
\* Positions the mapper returns for the clicks tried: every tile, and one
\* position off the board on each side (left, right, above, below).
ClickPositions(s) ==
    Range(all_valid_coords(s))
    \cup {<<-1, 0>>, <<cell_count_in_row(s, 0), 0>>,
          <<0, -1>>, <<0, row_count(s)>>}

\* What random.sample can do during a primary click at pos: it is called only
\* on the first click that passes the position and flag checks.
ClickSamples(st, pos) ==
    IF st.mines_have_been_generated
         \/ ~is_position_valid(st.size, pos[1], pos[2])
      THEN {<<>>}
    ELSE sample_outcomes(
            possible_mine_locations(st.size, pos[1], pos[2]), st.mine_count)

\* restart_game arguments tried on the boards B: omitted, 0, the sizes and
\* mine counts of the boards, and a mine count one above the highest possible.
SizeArgs(B) == {None, Some(0)} \cup {Some(b[1]) : b \in B}
MineArgs(B) ==
    {None} \cup {Some(b[2]) : b \in B}
    \cup {Some(highest_possible_mine_count_for_size(b[1]) + 1) : b \in B}

\* The log of a handler call: which handler, and its result without the object.
Log(op, r) ==
    [op |-> op, outcome |-> r.outcome, events |-> r.events,
     seen |-> r.seen, shown |-> r.shown, elapsed |-> r.elapsed]

\* The object fields take the values of the record st.
Becomes(st) ==
    /\ size' = st.size
    /\ mine_count' = st.mine_count
    /\ grid' = st.grid
    /\ mines_have_been_generated' = st.mines_have_been_generated
    /\ start_time' = st.start_time

\* HexGrid(size, mine_count) for a board of B, at time 0.
InitOn(B) ==
    /\ now = 0
    /\ \E b \in B :
        LET st == init_game(
                    [ok |-> TRUE, size |-> b[1], grid |-> <<>>,
                     start_time |-> 0, mine_count |-> 0,
                     mines_have_been_generated |-> FALSE],
                    b[1], b[2], 0)
        IN  /\ st.ok
            /\ size = st.size
            /\ mine_count = st.mine_count
            /\ grid = st.grid
            /\ mines_have_been_generated = st.mines_have_been_generated
            /\ start_time = st.start_time
    /\ last = Log("init", Returned(<<>>))
    /\ queue = <<>>
    /\ complete = <<>>

\* GameUI.on_click, the mapper returning pos.
PrimaryClickAt(pos) ==
    \E sample \in ClickSamples(Self, pos) :
        LET r == primary_click(Self, pos[1], pos[2], sample, now)
        IN  /\ Becomes(r.st)
            /\ last' = Log("primary_click", r)
            /\ UNCHANGED <<now, queue, complete>>

PrimaryClick == \E pos \in ClickPositions(size) : PrimaryClickAt(pos)

\* GameUI.on_secondary_click, the mapper returning pos.
SecondaryClickAt(pos) ==
    LET r == secondary_click(Self, pos[1], pos[2], now)
    IN  /\ Becomes(r.st)
        /\ last' = Log("secondary_click", r)
        /\ UNCHANGED <<now, queue, complete>>

SecondaryClick == \E pos \in ClickPositions(size) : SecondaryClickAt(pos)

\* restart_game(a_size, a_mine_count); a ValueError leaves the object as it is.
RestartWith(a_size, a_mine_count) ==
    LET st == restart_game(Self, a_size, a_mine_count, now)
    IN  /\ Becomes(st)
        /\ last' = Log("restart_game",
                       IF st.ok THEN Returned(st) ELSE Raised(st))
        /\ UNCHANGED <<now, queue, complete>>

\* restart_game with arguments of B; a restart that succeeds stays within B.
RestartOn(B) ==
    \E a_size \in SizeArgs(B), a_mine_count \in MineArgs(B) :
        /\ LET st == restart_game(Self, a_size, a_mine_count, now)
           IN  st.ok => <<st.size, st.mine_count>> \in B
        /\ RestartWith(a_size, a_mine_count)

Restart == RestartOn(Boards)

ClockRestart == RestartOn(ClockBoards)

\* time.time() advances between two handlers.
Tick ==
    /\ now < MaxTime
    /\ now' = now + 1
    /\ UNCHANGED <<size, mine_count, grid, mines_have_been_generated,
                   start_time, last, queue, complete>>

Init == InitOn(Boards)

Next == PrimaryClick \/ SecondaryClick \/ Restart

\* The game on the boards Boards; the clock stands still.
Spec == Init /\ [][Next]_vars

ClockInit == InitOn(ClockBoards)

ClockNext == PrimaryClick \/ SecondaryClick \/ ClockRestart \/ Tick

\* The game on ClockBoards with time passing between the handlers.
SpecClock == ClockInit /\ [][ClockNext]_vars

(***************************************************************************)
(* Construction and restart with every kind of argument: the object of     *)
(* GameUI, replaced by HexGrid(s, m) or restarted with any size and mine   *)
(* count, and clicked on.                                                  *)
(***************************************************************************)
\* Sizes constructed: the one-tile board and the smallest board of the form.
SetupSizes == {1, MinSize}

\* Mine counts requested for size s: a negative one, none, one, the highest
\* possible and one more than that.
SetupMineCounts(s) ==
    {-1, 0, 1, highest_possible_mine_count_for_size(s),
     highest_possible_mine_count_for_size(s) + 1}

SetupSizeArgs == {None, Some(0)} \cup {Some(s) : s \in SetupSizes}

SetupMineArgs ==
    {None} \cup {Some(m) : m \in UNION {SetupMineCounts(s) : s \in SetupSizes}}

\* self.hex_grid = HexGrid(s, m): a ValueError leaves the old object in place.
ConstructWith(s, m) ==
    LET st == init_game(
                [ok |-> TRUE, size |-> s, grid |-> <<>>,
                 start_time |-> now, mine_count |-> 0,
                 mines_have_been_generated |-> FALSE],
                s, m, now)
    IN  /\ IF st.ok THEN Becomes(st)
           ELSE UNCHANGED <<size, mine_count, grid,
                            mines_have_been_generated, start_time>>
        /\ last' = Log("init", IF st.ok THEN Returned(st) ELSE Raised(st))
        /\ UNCHANGED <<now, queue, complete>>

Construct == \E s \in SetupSizes : \E m \in SetupMineCounts(s) : ConstructWith(s, m)

SetupRestart ==
    \E a_size \in SetupSizeArgs, a_mine_count \in SetupMineArgs :
        RestartWith(a_size, a_mine_count)

\* GameUI.__init__: self.hex_grid = HexGrid(2, 1).
SetupInit == InitOn({<<2, 1>>})

SetupNext == Construct \/ SetupRestart \/ PrimaryClick \/ SecondaryClick

SpecSetup == SetupInit /\ [][SetupNext]_vars

(***************************************************************************)
(* reveal_mines_from pass by pass: the state is the grid and the two local *)
(* lists during one call, from the moment primary_click makes it.          *)
(***************************************************************************)
\* The most mines on a board of the smallest size the flood fill is followed
\* on, and the most flags standing on a board.
MaxFloodMines == 2
MaxFloodFlags == 1

\* The most mines on a board of the next size.
MaxWideFloodMines == 2

\* The boards the flood fill is followed on as written: the smallest size with
\* up to MaxFloodMines mines, flags and a tile revealed earlier (pre), and
\* the next size with up to MaxWideFloodMines mines, on the first click of a
\* game without flags.
SmallFloodCase ==
    [size |-> MinSize, mines |-> MaxFloodMines,
     flags |-> MaxFloodFlags, pre |-> TRUE]

WideFloodCase ==
    [size |-> MinSize + 1, mines |-> MaxWideFloodMines,
     flags |-> 0, pre |-> FALSE]

\* The fewest mines on a board the flood fill is followed on in every order
\* of the queue (on a board without mines the orders are too many to follow).
MinAnyOrderMines == 1

\* The subsets of S with j to k elements.
FromTo(S, j, k) == UNION {KSubsets(S, n) : n \in j..k}

\* The subsets of S with at most k elements.
UpTo(S, k) == FromTo(S, 0, k)

\* The grid of size s with mines on M, flags on F and the tiles of R revealed.
grid_with(s, M, F, R) ==
    [r \in 1..row_count(s) |->
        [c \in 1..cell_count_in_row(s, r - 1) |->
            [revealed |-> <<c - 1, r - 1>> \in R,
             mine |-> <<c - 1, r - 1>> \in M,
             flag |-> <<c - 1, r - 1>> \in F]]]

\* The positions of the mines of the grid g.
MinesIn(g) ==
    UNION {{<<c - 1, r - 1>> : c \in {k \in DOMAIN g[r] : has_mine(g[r][k])}} :
              r \in DOMAIN g}

\* The log while reveal_mines_from runs on the object st.
FloodLog(st) ==
    [op |-> "reveal_mines_from", outcome |-> "called", events |-> <<>>,
     seen |-> Seen(st), shown |-> <<>>, elapsed |-> 0]

\* primary_click has generated the mines (or found them), revealed the
\* clicked tile origin, found no mine next to it and calls reveal_mines_from:
\* mines on M, flags on hidden tiles F (no more than mines), and revealed
\* before this click either nothing or one numbered tile P.  The clicked tile
\* is a mine only if an earlier click generated the mines.  At least
\* min_mines mines lie on the board.
FloodCalls(case, min_mines) ==
    LET s == case.size
        coords == Range(all_valid_coords(s))
        numbered(M, F) ==
            {p \in coords \ (M \cup F) :
                adjacent_mine_count(s, grid_with(s, M, {}, {}),
                                    p[1], p[2]) > 0}
        calls(M, F, origin) ==
            {[size |-> s, grid |-> grid_with(s, M, F, P \cup {origin}),
              origin |-> origin] :
                P \in {Q \in UpTo(numbered(M, F),
                                  IF case.pre THEN 1 ELSE 0) :
                          /\ adjacent_mine_count(
                                 s, grid_with(s, M, F, Q \cup {origin}),
                                 origin[1], origin[2]) = 0
                          /\ origin \in M => Q # {}}}
    IN  UNION {UNION {UNION {calls(M, F, origin) : origin \in coords \ F} :
                        F \in UpTo(coords, Min(case.flags, Cardinality(M)))} :
                 M \in FromTo(coords, min_mines, case.mines)}

\* The state at the call reveal_mines_from(origin) on the grid g of size s.
FloodStartsAs(s, g, origin) ==
    /\ size = s
    /\ mine_count = Cardinality(MinesIn(g))
    /\ grid = g
    /\ mines_have_been_generated = TRUE
    /\ start_time = 0
    /\ now = 0
    /\ queue = <<origin>>
    /\ complete = <<>>
    /\ last = FloodLog([size |-> s, grid |-> g,
                        mines_have_been_generated |-> TRUE])

\* The same state as the next state of a step.
FloodCalledAs(s, g, origin) ==
    /\ size' = s
    /\ mine_count' = Cardinality(MinesIn(g))
    /\ grid' = g
    /\ mines_have_been_generated' = TRUE
    /\ queue' = <<origin>>
    /\ complete' = <<>>
    /\ last' = FloodLog([size |-> s, grid |-> g,
                         mines_have_been_generated |-> TRUE])
    /\ UNCHANGED <<start_time, now>>

\* reveal_mines_from is called on one of the boards of cases.
FloodInitOn(cases, min_mines) ==
    \E case \in cases :
        \E call \in FloodCalls(case, min_mines) :
            FloodStartsAs(call.size, call.grid, call.origin)

\* The result r of a pass becomes the state.
FloodBecomes(r) ==
    /\ grid' = r.grid
    /\ queue' = r.queue
    /\ complete' = r.complete
    /\ UNCHANGED <<size, mine_count, mines_have_been_generated,
                   start_time, now, last>>

\* One pass through the while loop as the source makes it.
FloodStep ==
    /\ last.op = "reveal_mines_from"
    /\ flood_continues(queue)
    /\ \E r \in {flood_iteration(size, grid, queue, complete)} :
          FloodBecomes(r)

\* The lists that hold the entries of seq in some order.
Orders(seq) ==
    {[k \in 1..Len(seq) |-> seq[f[k]]] : f \in Permutations(1..Len(seq))}

\* One pass through the while loop that takes the i-th entry of the queue
\* and visits its adjacent positions in the order of adjacent_tiles.
FloodStepAt(i, adjacent_tiles) ==
    /\ last.op = "reveal_mines_from"
    /\ flood_continues(queue)
    /\ \E r \in {flood_iteration_at(size, grid, queue, complete, i,
                                     adjacent_tiles)} :
          FloodBecomes(r)

\* A pass that takes any entry of the queue and any order of its adjacent
\* positions.
FloodStepAny ==
    \E i \in 1..Len(queue) :
        \E adjacent_tiles \in
                Orders(adjacent_positions(size, queue[i][1], queue[i][2])) :
            FloodStepAt(i, adjacent_tiles)

FloodInit == FloodInitOn({SmallFloodCase, WideFloodCase}, 0)

FloodNext == FloodStep

\* reveal_mines_from as written.
SpecFlood == FloodInit /\ [][FloodNext]_vars

\* GameUI.__init__: self.hex_grid = HexGrid(2, 1).
FloodFairInit == InitOn({<<2, 1>>})

\* Handlers not followed here have made the new object one of the boards of
\* SmallFloodCase, and primary_click calls reveal_mines_from on it.
FloodCall ==
    /\ last.op = "init"
    /\ \E call \in FloodCalls(SmallFloodCase, 0) :
          FloodCalledAs(call.size, call.grid, call.origin)

FloodFairNext == FloodCall \/ FloodStep

\* reveal_mines_from as written, not held up between two passes of its loop.
SpecFloodFair ==
    FloodFairInit /\ [][FloodFairNext]_vars /\ WF_vars(FloodStep)

FloodAnyInit == FloodInitOn({SmallFloodCase}, MinAnyOrderMines)

FloodAnyNext == FloodStepAny

\* reveal_mines_from taking the queue entries in every possible order.
SpecFloodAnyOrder == FloodAnyInit /\ [][FloodAnyNext]_vars

(***************************************************************************)
(* The coordinate queries of HexGrid called one at a time on a fresh grid  *)
(* of every size up to MaxGeometrySize: the state is the object and the    *)
(* log of the last query (which one, its arguments, what it returned).     *)
(***************************************************************************)
\* The largest size whose geometry is enumerated.
MaxGeometrySize == 4

GeometrySizes == MinSize..MaxGeometrySize

\* Arguments tried for field_x and field_y on size s: every coordinate of
\* the board and more than one beyond it on each side.
GeometryRange(s) == (-2)..(highest_row_cell_count(s) + 1)

Query(op, args, result) == [op |-> op, args |-> args, result |-> result]

\* HexGrid(s, 0) for a size of GeometrySizes; nothing has been asked yet.
GeometryInit == InitOn({<<s, 0>> : s \in GeometrySizes})

\* The query op with the arguments args returns result; the object is as
\* before.
Answers(op, args, result) ==
    /\ last' = Query(op, args, result)
    /\ UNCHANGED <<size, mine_count, grid, mines_have_been_generated,
                   start_time, now, queue, complete>>

AllValidCoordsCall ==
    Answers("all_valid_coords", <<>>, all_valid_coords(size))

IsPositionValidCall ==
    \E field_x \in GeometryRange(size), field_y \in GeometryRange(size) :
        Answers("is_position_valid", <<field_x, field_y>>,
                is_position_valid(size, field_x, field_y))

CellCountInRowCall ==
    \E field_y \in 0..(row_count(size) - 1) :
        Answers("cell_count_in_row", <<field_y>>,
                cell_count_in_row(size, field_y))

HighestPossibleMineCountCall ==
    Answers("highest_possible_mine_count_for_size", <<size>>,
            highest_possible_mine_count_for_size(size))

AdjacentPositionsCall ==
    \E pos \in Range(all_valid_coords(size)) :
        Answers("adjacent_positions", pos,
                adjacent_positions(size, pos[1], pos[2]))

GeometryNext ==
    \/ AllValidCoordsCall
    \/ IsPositionValidCall
    \/ CellCountInRowCall
    \/ HighestPossibleMineCountCall
    \/ AdjacentPositionsCall

SpecGeometry == GeometryInit /\ [][GeometryNext]_vars

(***************************************************************************)
(* The screen mapper of HexGrid.  An apothem is a positive rational        *)
(* <<p, q>> = p / q whose denominator q is a power of two, and screen_x is *)
(* a multiple of 1 / q, so that the float products, sums and quotients of  *)
(* the source are exact; the comparisons with math.sqrt(3) are decided on  *)
(* the squares.                                                            *)
(***************************************************************************)
\* a <= b * sqrt(3), for integers a and b.
LeqTimesSqrt3(a, b) ==
    IF a <= 0 /\ b >= 0 THEN TRUE
    ELSE IF a > 0 /\ b <= 0 THEN FALSE
    ELSE IF a > 0 THEN a * a <= 3 * b * b
    ELSE a * a >= 3 * b * b

\* round(n / d) of Python 3 for integers n and d > 0: to the nearest
\* integer, a half to the even one.
round(n, d) ==
    LET f == n \div d
        r == n % d
    IN  IF 2 * r < d THEN f
        ELSE IF 2 * r > d THEN f + 1
        ELSE IF f % 2 = 0 THEN f
        ELSE f + 1

\* The result keeps screen_x as its numerator over the denominator of the
\* apothem; screen_y is the int() of
\*   field_y * 1.5 * d + d  =  p * (3 * field_y + 2) / (q * sqrt(3)),
\* with d = 2 * apothem / sqrt(3): the largest n with
\*   n * q * sqrt(3) <= p * (3 * field_y + 2).
game_position_to_screen_coordinates(s, field_x, field_y, apothem) ==
    LET p == apothem[1]
        q == apothem[2]
        row == cell_count_in_row(s, field_y)
        max_row_count == highest_row_cell_count(s)
        screen_x == p * (max_row_count - row) + 2 * p * field_x + p
        top == p * (3 * field_y + 2)
        screen_y == CHOOSE n \in 0..top :
                        /\ 3 * n * n * q * q <= top * top
                        /\ 3 * (n + 1) * (n + 1) * q * q > top * top
    IN  <<screen_x, screen_y>>

\* field_y is round((screen_y - d) / (1.5 * d)), and
\*   (screen_y - d) / (1.5 * d) = (screen_y * q * sqrt(3) - 2 * p) / (3 * p),
\* so it is the largest k with (6 * k + 1) * p <= 2 * screen_y * q * sqrt(3);
\* the quotient is never a half.  field_x is round(n / (2 * p)) for the
\* numerator n of screen_x - apothem - apothem * (max_row_count - row_count).
screen_coordinates_to_game_position(s, screen_x, screen_y, apothem) ==
    LET p == apothem[1]
        q == apothem[2]
        low == IF screen_y < 0 THEN screen_y * q - 1 ELSE -1
        high == IF screen_y < 0 THEN 0 ELSE screen_y * q + 1
        field_y == CHOOSE k \in low..high :
                        /\ LeqTimesSqrt3((6 * k + 1) * p, 2 * screen_y * q)
                        /\ ~LeqTimesSqrt3((6 * k + 7) * p, 2 * screen_y * q)
        row == cell_count_in_row(s, field_y)
        max_row_count == highest_row_cell_count(s)
        field_x == round(screen_x - p - p * (max_row_count - row), 2 * p)
    IN  <<field_x, field_y>>

\* The largest numerator of an apothem, and the denominators tried.
MaxApothemNumerator == 8

ApothemDenominators == {1, 2, 4}

Apothems == (1..MaxApothemNumerator) \X ApothemDenominators

\* game_position_to_screen_coordinates on a tile of the board.
ToScreenCall ==
    \E pos \in Range(all_valid_coords(size)), apothem \in Apothems :
        Answers("game_position_to_screen_coordinates",
                <<pos[1], pos[2], apothem>>,
                game_position_to_screen_coordinates(
                    size, pos[1], pos[2], apothem))

\* screen_coordinates_to_game_position on what the last call of
\* game_position_to_screen_coordinates returned, with the same apothem.
ToGameCall ==
    /\ last.op = "game_position_to_screen_coordinates"
    /\ Answers("screen_coordinates_to_game_position",
               <<last.result[1], last.result[2], last.args[3]>>,
               screen_coordinates_to_game_position(
                   size, last.result[1], last.result[2], last.args[3]))

MapperNext == ToScreenCall \/ ToGameCall

SpecMapper == GeometryInit /\ [][MapperNext]_vars

(***************************************************************************)
(* The difficulty form (src/hexsweeper/choose_difficulty_ui.py) acting on  *)
(* the HexGrid of the game window, between clicks and restarts.            *)
(***************************************************************************)
\* on_window_close: self.game_ui.hex_grid.restart_game().
on_window_close(st, t) == restart_game(st, None, None, t)

\* select_difficulty_clicked that only stores the slider values.
select_difficulty_clicked_unrestarted(st, s, m, t) ==
    [st EXCEPT !.size = s, !.mine_count = m]

\* select_difficulty_clicked, the sliders standing at s and m: both fields
\* are assigned on the object, then on_window_close restarts it.
select_difficulty_clicked(st, s, m, t) ==
    on_window_close([st EXCEPT !.size = s, !.mine_count = m], t)

\* Slider positions tried in the form: the smallest size with one mine and
\* with the most the mine slider allows, and the next size with one mine.
\* The mine slider runs from 1 to highest_possible_mine_count_for_size of
\* the size slider's value.
DifficultyBoards ==
    {<<MinSize, 1>>,
     <<MinSize, highest_possible_mine_count_for_size(MinSize)>>,
     <<MinSize + 1, 1>>}

SelectDifficultyClicked ==
    \E b \in DifficultyBoards :
        LET st == select_difficulty_clicked(Self, b[1], b[2], now)
        IN  /\ Becomes(st)
            /\ last' = Log("select_difficulty_clicked",
                           IF st.ok THEN Returned(st) ELSE Raised(st))
            /\ UNCHANGED <<now, queue, complete>>

OnWindowClose ==
    LET st == on_window_close(Self, now)
    IN  /\ Becomes(st)
        /\ last' = Log("on_window_close",
                       IF st.ok THEN Returned(st) ELSE Raised(st))
        /\ UNCHANGED <<now, queue, complete>>

DifficultyRestart == RestartOn(DifficultyBoards)

\* GameUI.__init__: self.hex_grid = HexGrid(2, 1).
DifficultyInit == InitOn({<<2, 1>>})

\* Positions clicked while the form is followed: a corner tile, the center
\* tile, the last tile of the center row and a position off the board.
DifficultyClicks(s) ==
    {<<0, 0>>, <<s - 1, s - 1>>, <<2 * s - 2, s - 1>>, <<-1, 0>>}

DifficultyPrimaryClick ==
    \E pos \in DifficultyClicks(size) : PrimaryClickAt(pos)

DifficultySecondaryClick ==
    \E pos \in DifficultyClicks(size) : SecondaryClickAt(pos)

DifficultyNext ==
    \/ SelectDifficultyClicked
    \/ OnWindowClose
    \/ DifficultyRestart
    \/ DifficultyPrimaryClick
    \/ DifficultySecondaryClick

SpecDifficulty == DifficultyInit /\ [][DifficultyNext]_vars

(***************************************************************************)
(* The duration in the win alert (restart_if_game_is_over).  Time is       *)
(* counted in quarters of a millisecond, so that the rounding of the       *)
(* "%.3f" conversion has something to round; a written number is the       *)
(* record of its integer part and the decimals printed after the point     *)
(* (none for an integer literal), and the duration is the record of its    *)
(* written numbers and unit words (minute_word "" when no minutes are      *)
(* written).                                                               *)
(***************************************************************************)
MaxMinutes == 3

Written(whole, decimals) == [whole |-> whole, decimals |-> decimals]

\* f"{secs:.3f}", secs given in quarters of a millisecond.
format_3f(secs) ==
    LET ms == round(secs, 4)
    IN  Written(ms \div 1000,
                <<(ms \div 100) % 10, (ms \div 10) % 10, ms % 10>>)

\* f"{mins}" of the float mins, which has an integer value.
format_float(mins) == Written(mins, <<0>>)

\* The text duration for end_time - start_time = elapsed.
duration(elapsed) ==
    LET mins == elapsed \div (60 * 4000)
        secs == elapsed - (60 * 4000) * mins
    IN  IF mins = 0
          THEN [minutes |-> Written(0, <<>>), minute_word |-> "",
                seconds |-> format_3f(secs), second_word |-> "seconds"]
        ELSE IF mins = 1
          THEN [minutes |-> Written(1, <<>>), minute_word |-> "minute",
                seconds |-> format_3f(secs), second_word |-> "seconds"]
        ELSE [minutes |-> format_float(mins), minute_word |-> "minutes",
              seconds |-> format_3f(secs), second_word |-> "seconds"]

\* Elapsed times: whole minutes, whole seconds and a fraction of a second
\* that is not half-way between two milliseconds.
Durations ==
    {(60 * 4000) * m + 4000 * s + f :
        m \in 0..MaxMinutes, s \in {0, 1, 2, 30, 59},
        f \in {0, 1, 3, 2000, 3997, 3999}}

DurationCall ==
    \E elapsed \in Durations :
        Answers("duration", <<elapsed>>, duration(elapsed))

MessageInit == InitOn({<<MinSize, 1>>})

MessageNext == DurationCall

\* The duration text for the elapsed times of Durations.
SpecMessage == MessageInit /\ [][MessageNext]_vars

(***************************************************************************)
(* The fit of the board into the window (HexGridUIUtilities).  Width,      *)
(* height and border are integers; an apothem is p / q, or p / q times     *)
(* sqrt(3), written [p, q, sqrt3] with q > 0, so that the quotients and    *)
(* products of the source are exact; comparisons with math.sqrt(3) are     *)
(* decided on the squares.                                                 *)
(***************************************************************************)
MaxWindow == 12

Borders == {0, 2}

Abs(n) == IF n < 0 THEN -n ELSE n

Length(p, q, sqrt3) == [p |-> p, q |-> q, sqrt3 |-> sqrt3]

\* a * sqrt(3) <= b, for integers a and b.
TimesSqrt3Leq(a, b) ==
    IF a = 0 /\ b = 0 THEN TRUE ELSE ~LeqTimesSqrt3(b, a)

\* m * a <= d, for a length a and integers m >= 0 and d.
TimesLeq(m, a, d) ==
    IF a.sqrt3 THEN TimesSqrt3Leq(m * a.p, d * a.q)
    ELSE m * a.p <= d * a.q

\* a <= b, for lengths a and b.
LengthLeq(a, b) ==
    IF a.sqrt3 = b.sqrt3 THEN a.p * b.q <= b.p * a.q
    ELSE IF a.sqrt3 THEN TimesSqrt3Leq(a.p * b.q, b.p * a.q)
    ELSE LeqTimesSqrt3(a.p * b.q, b.p * a.q)

\* math.floor((d - m * a) / 2), for a length a and integers m >= 0 and d.
floor_half(d, m, a) ==
    IF a.sqrt3
      THEN LET far == Abs(d) + (2 * m * Abs(a.p)) \div a.q + 2
           IN  CHOOSE k \in (-far)..far :
                    /\ TimesLeq(m, a, d - 2 * k)
                    /\ ~TimesLeq(m, a, d - 2 * (k + 1))
    ELSE (d * a.q - m * a.p) \div (2 * a.q)

horizontal_apothem(width, border, s) ==
    Length(width - 2 * border, 2 * (2 * s - 1), FALSE)

vertical_apothem(height, border, s) ==
    Length(height - 2 * border, 3 * (2 * s - 1) + 1, TRUE)

\* min(a, b) of Python: the first of the two unless the second is smaller.
min(a, b) == IF LengthLeq(a, b) THEN a ELSE b

\* apothem_and_hshift_for_size that forgets the border in the shift.
apothem_and_hshift_for_size_unbordered(width, height, border, s) ==
    LET apothem == min(horizontal_apothem(width, border, s),
                       vertical_apothem(height, border, s))
    IN  IF /\ LengthLeq(vertical_apothem(height, border, s), apothem)
           /\ LengthLeq(apothem, vertical_apothem(height, border, s))
          THEN <<apothem, floor_half(width, 2 * (2 * s - 1), apothem)>>
        ELSE <<apothem, 0>>

\* apothem_and_hshift_for_size(width, height, border, size): <<apothem,
\* hshift>>.
apothem_and_hshift_for_size(width, height, border, s) ==
    LET apothem == min(horizontal_apothem(width, border, s),
                       vertical_apothem(height, border, s))
    IN  IF /\ LengthLeq(vertical_apothem(height, border, s), apothem)
           /\ LengthLeq(apothem, vertical_apothem(height, border, s))
          THEN <<apothem,
                 floor_half(width - 2 * border, 2 * (2 * s - 1), apothem)>>
        ELSE <<apothem, 0>>

ApothemCall ==
    \E width \in 0..MaxWindow, height \in 0..MaxWindow,
       border \in Borders, s \in GeometrySizes :
        Answers("apothem_and_hshift_for_size",
                <<width, height, border, s>>,
                apothem_and_hshift_for_size(width, height, border, s))

LayoutInit == InitOn({<<MinSize, 1>>})

LayoutNext == ApothemCall

\* The fit of the board for the windows up to MaxWindow.
SpecLayout == LayoutInit /\ [][LayoutNext]_vars

(***************************************************************************)
(* adjacent_mine_count on the boards of a first primary click, taken at    *)
(* the moment the click has placed the mines and revealed its tile, which  *)
(* is when primary_click calls adjacent_mine_count.                        *)
(***************************************************************************)
CountBoards ==
    {<<MinSize, 1>>, <<MinSize, 3>>,
     <<MinSize, highest_possible_mine_count_for_size(MinSize)>>,
     <<MinSize + 1, 1>>,
     <<MinSize + 1, highest_possible_mine_count_for_size(MinSize + 1)>>}

\* HexGrid(size, mine_count) for a board of CountBoards, then the first
\* statements of primary_click on one of its tiles.
CountInit ==
    /\ now = 0
    /\ queue = <<>>
    /\ complete = <<>>
    /\ \E b \in CountBoards :
        LET st == init_game(
                    [ok |-> TRUE, size |-> b[1], grid |-> <<>>,
                     start_time |-> 0, mine_count |-> 0,
                     mines_have_been_generated |-> FALSE],
                    b[1], b[2], 0)
        IN  \E pos \in Range(all_valid_coords(st.size)) :
                \E sample \in ClickSamples(st, pos) :
                    LET st1 == try_generate_mines(st, pos[1], pos[2],
                                                  sample, 0)
                    IN  /\ st1.ok
                        /\ size = st1.size
                        /\ mine_count = st1.mine_count
                        /\ grid = reveal_at(st1.grid, pos)
                        /\ mines_have_been_generated
                                = st1.mines_have_been_generated
                        /\ start_time = st1.start_time
                        /\ last = Query("try_generate_mines", pos, sample)

AdjacentMineCountCall ==
    \E pos \in Range(all_valid_coords(size)) :
        Answers("adjacent_mine_count", pos,
                adjacent_mine_count(size, grid, pos[1], pos[2]))

CountNext == AdjacentMineCountCall

\* adjacent_mine_count on freshly mined boards.
SpecCount == CountInit /\ [][CountNext]_vars

(***************************************************************************)
(* Properties.                                                             *)
(***************************************************************************)
\* The positions of the nested list g.
GridCoords(g) == UNION {{<<c - 1, r - 1>> : c \in DOMAIN g[r]} : r \in DOMAIN g}

MinesOf(g) == {p \in GridCoords(g) : has_mine(TileAt(g, p))}
FlagsOf(g) == {p \in GridCoords(g) : has_flag(TileAt(g, p))}
RevealedOf(g) == {p \in GridCoords(g) : is_revealed(TileAt(g, p))}

\* The last handler ended the session and put a fresh grid in its place.
SessionEnded == last.outcome \in {"Won", "Lost"}

\* The object is a fresh grid of its size: nothing revealed, flagged or mined.
FreshGrid == ~mines_have_been_generated /\ grid = blank_grid(size)

\* C1: after mines have been generated, a primary click on an unflagged mine
\* tile makes the evaluator report Lost, never Won: the loss alert is raised
\* while every unflagged tile is revealed, and the grid restarts with the same
\* size and mine count and mines_have_been_generated = FALSE.
C1_MineClickLoses ==
    [][\A pos \in GridCoords(grid) :
          (/\ last'.op = "primary_click"
           /\ mines_have_been_generated
           /\ has_mine(TileAt(grid, pos))
           /\ ~has_flag(TileAt(grid, pos))
           /\ PrimaryClickAt(pos))
          => (/\ last'.outcome = "Lost"
              /\ last'.events \in {<<"redraw", "alert_lost", "redraw">>,
                                   <<"redraw", "redraw", "alert_lost", "redraw">>}
              /\ RevealedOf(last'.shown) =
                    GridCoords(grid) \ FlagsOf(last'.shown)
              /\ size' = size
              /\ mine_count' = mine_count
              /\ FreshGrid')]_vars

\* C2: in every reachable state the number of flagged tiles is at most
\* mine_count.
C2_FlagsWithinMineCount == total_flag_count(size, grid) <= mine_count

\* A flag has just been set that uses up the last of several slots.
C2_Witness ==
    /\ last.op = "secondary_click"
    /\ last.outcome = "Ongoing"
    /\ mine_count >= 2
    /\ Cardinality(FlagsOf(grid)) = mine_count

NoTileFlaggedAndRevealed(g) == FlagsOf(g) \cap RevealedOf(g) = {}

\* C3: no tile is both flagged and revealed: not in the grid between two
\* handlers, not in the grid the evaluator examines after a flood fill or a
\* flag change, and not in the grid disclosed at the end of a game.
C3_NeverFlaggedAndRevealed ==
    /\ NoTileFlaggedAndRevealed(grid)
    /\ NoTileFlaggedAndRevealed(last.seen.grid)
    /\ NoTileFlaggedAndRevealed(last.shown)

\* A flood fill has passed a flagged tile: the flagged tile is hidden next to
\* a revealed tile without adjacent mines.
C3_Witness ==
    /\ last.op = "primary_click"
    /\ \E p \in RevealedOf(grid) :
        /\ adjacent_mine_count(size, grid, p[1], p[2]) = 0
        /\ \E q \in Range(adjacent_positions(size, p[1], p[2])) :
              q \in FlagsOf(grid)

\* C4: once mines_have_been_generated is true, a step leaves the mine set as
\* it is (also in the grid disclosed at a game end), unless it restarts the
\* grid, which clears the mines.
C4_MinesFixedUntilRestart ==
    [][mines_have_been_generated
        => \/ /\ mines_have_been_generated'
              /\ MinesOf(grid') = MinesOf(grid)
           \/ /\ SessionEnded'
              /\ MinesOf(last'.shown) = MinesOf(grid)
              /\ FreshGrid'
           \/ /\ last'.op = "restart_game"
              /\ FreshGrid']_vars

\* A primary click was made after the click that generated the mines: two
\* tiles are revealed and none of them was revealed by a flood fill.
C4_Witness ==
    /\ mines_have_been_generated
    /\ last.op = "primary_click"
    /\ last.outcome = "Ongoing"
    /\ Cardinality(RevealedOf(grid)) >= 2
    /\ \A p \in RevealedOf(grid) :
          adjacent_mine_count(size, grid, p[1], p[2]) > 0

\* C5: on a grid without mines, try_generate_mines(x, y) with a valid (x, y)
\* makes exactly mine_count tiles mines, none of them (x, y), and sets
\* mines_have_been_generated; any later call leaves the mine set unchanged.
C5_GenerateMines ==
    ~mines_have_been_generated =>
        \A pos \in GridCoords(grid) :
            \A sample \in sample_outcomes(
                    possible_mine_locations(size, pos[1], pos[2]),
                    mine_count) :
                LET st1 == try_generate_mines(
                                Self, pos[1], pos[2], sample, now)
                IN  /\ st1.ok
                    /\ st1.mines_have_been_generated
                    /\ Cardinality(MinesOf(st1.grid)) = mine_count
                    /\ pos \notin MinesOf(st1.grid)
                    /\ \A pos2 \in GridCoords(grid) :
                        \A sample2 \in sample_outcomes(
                                possible_mine_locations(
                                    size, pos2[1], pos2[2]),
                                mine_count) :
                            try_generate_mines(st1, pos2[1], pos2[2],
                                               sample2, now).grid = st1.grid

\* The first click has generated the mines and revealed its own tile only.
C5_Witness ==
    /\ last.op = "primary_click"
    /\ mines_have_been_generated
    /\ mine_count >= 1
    /\ Cardinality(MinesOf(grid)) = mine_count
    /\ Cardinality(RevealedOf(grid)) = 1

\* The outcome by the stated priority, for the object the evaluator examined.
PriorityOutcome(seen) ==
    IF ~seen.generated THEN "Ongoing"
    ELSE IF GridCoords(seen.grid) \ (MinesOf(seen.grid) \cup RevealedOf(seen.grid)) = {}
      THEN "Won"
    ELSE IF MinesOf(seen.grid) \cap RevealedOf(seen.grid) # {} THEN "Lost"
    ELSE "Ongoing"

C7_FirstClickSafe ==
    [][\A pos \in GridCoords(grid) :
          (/\ last'.op = "primary_click"
           /\ ~mines_have_been_generated
           /\ ~has_flag(TileAt(grid, pos))
           /\ PrimaryClickAt(pos))
          => (/\ last'.outcome \in {"Ongoing", "Won"}
              /\ MinesOf(last'.seen.grid) \cap RevealedOf(last'.seen.grid)
                    = {})]_vars

\* The first click ran a flood fill and the game goes on: the only hidden
\* tiles left are the mine and a flagged tile.
C7_Witness ==
    /\ last.op = "primary_click"
    /\ last.outcome = "Ongoing"
    /\ mines_have_been_generated
    /\ Cardinality(FlagsOf(grid)) = 1
    /\ FlagsOf(grid) \cap MinesOf(grid) = {}
    /\ RevealedOf(grid) = GridCoords(grid) \ (FlagsOf(grid) \cup MinesOf(grid))

\* The evaluator reported Won, raised the win alert and restarted the grid.
WonAndRestarted ==
    /\ last.outcome = "Won"
    /\ last.events \in {<<"redraw", "alert_won", "redraw">>,
                        <<"redraw", "redraw", "alert_won", "redraw">>}
    /\ FreshGrid

\* C8 as stated: with mine_count = highest_possible_mine_count_for_size(size),
\* the first primary click on any valid tile is evaluated as Won at once.
C8_FirstClickWins ==
    [][\A pos \in GridCoords(grid) :
          (/\ last'.op = "primary_click"
           /\ mine_count = highest_possible_mine_count_for_size(size)
           /\ ~mines_have_been_generated
           /\ PrimaryClickAt(pos))
          => WonAndRestarted']_vars

\* C8 amended: with mine_count = highest_possible_mine_count_for_size(size),
\* the first primary click on any valid tile that carries no flag is evaluated
\* as Won at once: the win alert is raised and the grid restarts.
C8_FirstUnflaggedClickWins ==
    [][\A pos \in GridCoords(grid) :
          (/\ last'.op = "primary_click"
           /\ mine_count = highest_possible_mine_count_for_size(size)
           /\ ~mines_have_been_generated
           /\ ~has_flag(TileAt(grid, pos))
           /\ PrimaryClickAt(pos))
          => WonAndRestarted']_vars

\* A game with the highest possible mine count has been won by a click made
\* while flags were standing.
C8_Witness ==
    /\ last.op = "primary_click"
    /\ last.outcome = "Won"
    /\ mine_count = highest_possible_mine_count_for_size(size)
    /\ Cardinality(MinesOf(last.seen.grid)) = mine_count
    /\ FlagsOf(last.seen.grid) # {}

\* C9: when total_flag_count() = mine_count, a secondary click on an
\* unflagged, unrevealed tile raises the alert alone and changes no field; a
\* secondary click on a flagged tile removes that flag, after which a
\* secondary click on any unflagged, unrevealed tile sets a flag.
C9_FlagLimit ==
    [][\A pos \in GridCoords(grid) :
          (/\ last'.op = "secondary_click"
           /\ total_flag_count(size, grid) = mine_count
           /\ SecondaryClickAt(pos))
          => IF ~has_flag(TileAt(grid, pos)) /\ ~is_revealed(TileAt(grid, pos))
               THEN /\ last'.events = <<"alert_flag_limit">>
                    /\ UNCHANGED <<size, mine_count, grid,
                                   mines_have_been_generated, start_time>>
             ELSE IF has_flag(TileAt(grid, pos))
               THEN /\ FlagsOf(grid') = FlagsOf(grid) \ {pos}
                    /\ total_flag_count(size', grid') = mine_count - 1
                    /\ \A q \in GridCoords(grid') \ (FlagsOf(grid') \cup RevealedOf(grid')) :
                          q \in FlagsOf(
                                secondary_click(Self', q[1], q[2], now').st.grid)
             ELSE TRUE]_vars

\* A flag was refused on a grid that has flags standing.
C9_Witness ==
    /\ last.op = "secondary_click"
    /\ last.outcome = "refused"
    /\ FlagsOf(grid) # {}

\* C10: a primary click that maps to an invalid position or to a flagged tile
\* changes nothing: no tile, not mines_have_been_generated, not the session
\* clock; and it invokes neither redraw nor show_alert.
C10_PrimaryClickNoOp ==
    [][\A pos \in ClickPositions(size) :
          (/\ last'.op = "primary_click"
           /\ \/ ~is_position_valid(size, pos[1], pos[2])
              \/ has_flag(TileAt(grid, pos))
           /\ PrimaryClickAt(pos))
          => (/\ UNCHANGED <<size, mine_count, grid,
                             mines_have_been_generated, start_time>>
              /\ last'.events = <<>>)]_vars

\* A primary click returned early on a grid without mines that has a flagged
\* tile, at a time when the session clock is in the past.
C10_Witness ==
    /\ last.op = "primary_click"
    /\ last.outcome = "returned"
    /\ ~mines_have_been_generated
    /\ FlagsOf(grid) # {}
    /\ start_time < now

\* C11: in every reachable state can_toggle_flag holds of a tile exactly when
\* the tile is not revealed; a secondary click on an invalid position or on a
\* revealed tile changes nothing and invokes no callback; on an unrevealed
\* tile it removes the flag the tile carries, or sets one if the flag limit
\* is not reached, and changes no other flag.
C11_ToggleRule ==
    /\ [](\A pos \in GridCoords(grid) :
            can_toggle_flag(size, grid, pos)
                <=> ~is_revealed(TileAt(grid, pos)))
    /\ [][\A pos \in ClickPositions(size) :
            (/\ last'.op = "secondary_click"
             /\ SecondaryClickAt(pos))
            => IF \/ ~is_position_valid(size, pos[1], pos[2])
                  \/ is_revealed(TileAt(grid, pos))
                 THEN /\ UNCHANGED <<size, mine_count, grid,
                                     mines_have_been_generated, start_time>>
                      /\ last'.events = <<>>
               ELSE IF has_flag(TileAt(grid, pos))
                 THEN FlagsOf(grid') = FlagsOf(grid) \ {pos}
               ELSE IF total_flag_count(size, grid) < mine_count
                 THEN FlagsOf(grid') = FlagsOf(grid) \cup {pos}
               ELSE FlagsOf(grid') = FlagsOf(grid)]_vars

\* A secondary click has set a flag on a grid that has revealed tiles, so
\* that secondary clicks meet revealed, flagged and plain hidden tiles.
C11_Witness ==
    /\ last.op = "secondary_click"
    /\ last.outcome = "Ongoing"
    /\ mines_have_been_generated
    /\ RevealedOf(grid) # {}
    /\ FlagsOf(grid) # {}
    /\ GridCoords(grid) \ (RevealedOf(grid) \cup FlagsOf(grid)) # {}

\* The number of tiles of a hexagonal grid of size s.
TotalTiles(s) == 3 * s * s - 3 * s + 1

C13_MineCountInRange ==
    0 <= mine_count /\ mine_count <= TotalTiles(size) - 1

\* The value an Optional[int] argument stands for when only an omitted
\* argument falls back to the previous value prev.
Supplied(arg, prev) == IF arg = None THEN prev ELSE arg[1]

\* C14: a restart_game(size, mine_count) that passes validation leaves the
\* grid with exactly the supplied size and mine count, the previous value
\* standing in only for an omitted argument.
C14_RestartUsesArguments ==
    [][\A a_size \in SetupSizeArgs \ {Some(0)}, a_mine_count \in SetupMineArgs :
          (/\ last'.op = "restart_game"
           /\ RestartWith(a_size, a_mine_count)
           /\ last'.outcome = "returned")
          => (/\ size' = Supplied(a_size, size)
              /\ mine_count' = Supplied(a_mine_count, mine_count))]_vars

\* C15: right after a successful construction or restart
\* mines_have_been_generated is false and each of the 3 * size^2 - 3 * size + 1
\* tiles is unrevealed, unflagged and not a mine, whatever the grid was before.
C15_FreshAfterInit ==
    [][(last'.op \in {"init", "restart_game"} /\ last'.outcome = "returned")
        => (/\ ~mines_have_been_generated'
            /\ Cardinality(GridCoords(grid')) = TotalTiles(size')
            /\ Len(all_valid_coords(size')) = TotalTiles(size')
            /\ \A pos \in GridCoords(grid') :
                  /\ ~is_revealed(TileAt(grid', pos))
                  /\ ~has_flag(TileAt(grid', pos))
                  /\ ~has_mine(TileAt(grid', pos)))]_vars

\* A restart has succeeded and left a fresh board of seven tiles with one
\* mine to come.
C15_Witness ==
    /\ last.op = "restart_game"
    /\ last.outcome = "returned"
    /\ size = MinSize
    /\ mine_count = 1
    /\ FreshGrid

\* C20: on a successfully constructed grid primary_click and secondary_click
\* complete without raising, for every position and after every sequence of
\* clicks; mine generation on the first click never fails.
C20_ClicksNeverRaise ==
    last.op \in {"primary_click", "secondary_click"}
        => last.outcome # "ValueError"

\* C19: on a Won or Lost outcome the evaluator reveals every unflagged tile
\* (flagged tiles stay hidden and flagged, mines stay where they are), then
\* invokes redraw, then show_alert with the board so disclosed, then restarts
\* with the same size and mine count, then invokes redraw on the blank grid.
C19_GameOverOrder ==
    [][last'.outcome \in {"Won", "Lost"}
        => LET alert == IF last'.outcome = "Won"
                          THEN "alert_won" ELSE "alert_lost"
               before == last'.seen.grid
           IN  /\ last'.events \in {<<"redraw", alert, "redraw">>,
                                    <<"redraw", "redraw", alert, "redraw">>}
               /\ GridCoords(last'.shown) = GridCoords(before)
               /\ RevealedOf(last'.shown) =
                      GridCoords(before) \ FlagsOf(before)
               /\ FlagsOf(last'.shown) = FlagsOf(before)
               /\ MinesOf(last'.shown) = MinesOf(before)
               /\ size' = size
               /\ mine_count' = mine_count
               /\ FreshGrid']_vars

\* A game was lost while a flag stood on a tile without a mine: the alert was
\* raised on a board that discloses the mine and keeps that tile hidden.
C19_Witness ==
    /\ last.outcome = "Lost"
    /\ FlagsOf(last.shown) # {}
    /\ FlagsOf(last.shown) \cap MinesOf(last.shown) = {}
    /\ MinesOf(last.shown) \subseteq RevealedOf(last.shown)
    /\ FreshGrid

\* The tile reveal_mines_from was called on: the first entry to be expanded.
FloodOrigin == IF complete # <<>> THEN complete[1] ELSE queue[1]

\* The tiles adjacent to a tile of S.
Border(s, S) == UNION {Range(adjacent_positions(s, p[1], p[2])) : p \in S}

RECURSIVE ZeroClosure(_, _, _)
\* S with every tile that adjacency steps through tiles without adjacent
\* mines reach from it.
ZeroClosure(s, g, S) ==
    LET more == {q \in Border(s, S) :
                    adjacent_mine_count(s, g, q[1], q[2]) = 0}
    IN  IF more \subseteq S THEN S ELSE ZeroClosure(s, g, S \cup more)

\* Z: the tiles reachable from the origin through tiles without adjacent mines.
ZeroRegion == ZeroClosure(size, grid, {FloodOrigin})

\* C16: with Z the tiles reachable from the origin by adjacency steps through
\* tiles whose adjacent mine count is zero, reveal_mines_from reveals exactly
\* the unflagged tiles of Z and the unflagged tiles adjacent to Z: at the end
\* of the call the revealed tiles are those revealed before and these, Z is
\* the set of tiles expanded, and no flag or mine has changed.
C16_FloodRegion ==
    last.op = "reveal_mines_from" =>
        LET before == last.seen.grid
            reach == (ZeroRegion \cup Border(size, ZeroRegion))
                        \ FlagsOf(before)
        IN  /\ FlagsOf(grid) = FlagsOf(before)
            /\ MinesOf(grid) = MinesOf(before)
            /\ RevealedOf(before) \subseteq RevealedOf(grid)
            /\ queue = <<>> =>
                /\ RevealedOf(grid) = RevealedOf(before) \cup reach
                /\ Range(complete) = ZeroRegion
                /\ grid = reveal_mines_from(size, before,
                                            FloodOrigin[1], FloodOrigin[2])

\* A flood fill has ended that passed a flagged tile, left a tile outside the
\* region and its border hidden, and expanded several tiles.
C16_Witness ==
    /\ last.op = "reveal_mines_from"
    /\ queue = <<>>
    /\ Cardinality(ZeroRegion) >= 3
    /\ FlagsOf(grid) \cap (ZeroRegion \cup Border(size, ZeroRegion)) # {}
    /\ GridCoords(grid) \ (ZeroRegion \cup Border(size, ZeroRegion)
                            \cup FlagsOf(grid) \cup RevealedOf(grid)) # {}

\* C17: reveal_mines_from terminates: no coordinate is added to complete
\* twice, and a queue that is not empty becomes empty.
C17_FloodTerminates ==
    /\ [](\A i, j \in 1..Len(complete) : complete[i] = complete[j] => i = j)
    /\ [](queue # <<>> => <>(queue = <<>>))

\* A flood fill has ended after it expanded four tiles or more.
C17_Witness ==
    /\ last.op = "reveal_mines_from"
    /\ queue = <<>>
    /\ Len(complete) >= 4

\* C18: whatever order the entries of the queue are taken in and the
\* adjacent positions are enumerated in, the tiles revealed at the end are
\* those the first-in-first-out order of the source reveals.
C18_OrderIndependent ==
    (last.op = "reveal_mines_from" /\ queue = <<>>) =>
        RevealedOf(grid) =
            RevealedOf(reveal_mines_from(size, last.seen.grid,
                                         FloodOrigin[1], FloodOrigin[2]))

\* A flood fill has ended that expanded the tiles in another order than the
\* source does.
C18_Witness ==
    /\ last.op = "reveal_mines_from"
    /\ queue = <<>>
    /\ complete # flood_loop(size, last.seen.grid,
                             <<FloodOrigin>>, <<>>).complete

GeometryWindow(s) == GeometryRange(s) \X GeometryRange(s)

\* No entry of the list seq occurs in it twice.
NoDuplicates(seq) == \A i, j \in 1..Len(seq) : seq[i] = seq[j] => i = j

RECURSIVE SumOfRows(_, _)
\* cell_count_in_row summed over the rows field_y, field_y + 1, ... of size s.
SumOfRows(s, field_y) ==
    IF field_y >= row_count(s) THEN 0
    ELSE cell_count_in_row(s, field_y) + SumOfRows(s, field_y + 1)

\* C22: for every size >= 2, all_valid_coords lists exactly the positions
\* for which is_position_valid holds, each once, and their number is the sum
\* of cell_count_in_row over the rows, which is 3*size^2 - 3*size + 1, one
\* more than highest_possible_mine_count_for_size(size).
C22_AllValidCoords ==
    /\ last.op = "all_valid_coords"
        => /\ Range(last.result) =
                {p \in GeometryWindow(size) :
                    is_position_valid(size, p[1], p[2])}
           /\ NoDuplicates(last.result)
           /\ Len(last.result) = SumOfRows(size, 0)
           /\ Len(last.result) = 3 * size * size - 3 * size + 1
           /\ Len(last.result) =
                highest_possible_mine_count_for_size(size) + 1
    /\ last.op = "is_position_valid"
        => last.result = (last.args \in Range(all_valid_coords(size)))
    /\ last.op = "highest_possible_mine_count_for_size"
        => last.result + 1 = SumOfRows(size, 0)

\* all_valid_coords has been asked on a board larger than the smallest.
C22_Witness ==
    /\ last.op = "all_valid_coords"
    /\ size > MinSize
    /\ Len(last.result) > 7

\* The tile at pos lies on the boundary of the board of size s: in the first
\* or last row, or first or last in its row.
OnBoundary(s, pos) ==
    \/ pos[2] = 0
    \/ pos[2] = row_count(s) - 1
    \/ pos[1] = 0
    \/ pos[1] = cell_count_in_row(s, pos[2]) - 1

\* C23: for every size >= 2 and valid positions A and B, B is among
\* adjacent_positions(A) exactly if A is among adjacent_positions(B); a tile
\* not on the boundary has exactly 6 adjacent positions (all different and
\* none the tile itself), a boundary tile has fewer.
C23_AdjacencySymmetric ==
    last.op = "adjacent_positions"
        => LET A == last.args
               adjacent == last.result
           IN  /\ \A B \in Range(all_valid_coords(size)) :
                     B \in Range(adjacent)
                        <=> A \in Range(adjacent_positions(size, B[1], B[2]))
               /\ NoDuplicates(adjacent)
               /\ A \notin Range(adjacent)
               /\ IF OnBoundary(size, A) THEN Len(adjacent) < 6
                  ELSE Len(adjacent) = 6

\* adjacent_positions has been asked of a tile next to the center row of a
\* board that has tiles off the boundary in three rows.
C23_Witness ==
    /\ last.op = "adjacent_positions"
    /\ size > MinSize
    /\ ~OnBoundary(size, last.args)
    /\ last.args[2] = size


\* C24: for every size, every valid (x, y) and every apothem > 0,
\* screen_coordinates_to_game_position applied to what
\* game_position_to_screen_coordinates(x, y, apothem) returned gives (x, y)
\* again, each coordinate within one unit.
C24_RoundTrip ==
    [][(/\ last.op = "game_position_to_screen_coordinates"
        /\ last'.op = "screen_coordinates_to_game_position")
          => /\ Abs(last'.result[1] - last.args[1]) <= 1
             /\ Abs(last'.result[2] - last.args[2]) <= 1]_vars

\* The round trip returning exactly the position it started from.
RoundTripExact ==
    [][(/\ last.op = "game_position_to_screen_coordinates"
        /\ last'.op = "screen_coordinates_to_game_position")
          => last'.result = <<last.args[1], last.args[2]>>]_vars

\* C25: whenever a click handler has returned, the grid is in an Ongoing
\* state: no mine tile is revealed, and if the mines have been generated at
\* least one tile without a mine is still hidden.
C25_OngoingAfterClick ==
    last.op \in {"primary_click", "secondary_click"}
        => /\ MinesOf(grid) \cap RevealedOf(grid) = {}
           /\ mines_have_been_generated
                => number_of_safe_hidden_tiles(size, grid) > 0

\* A primary click has revealed a mine, the evaluator has found the loss and
\* the handler has returned.
C25_Witness ==
    /\ last.op = "primary_click"
    /\ last.outcome = "Lost"
    /\ MinesOf(last.seen.grid) \cap RevealedOf(last.seen.grid) # {}
    /\ number_of_safe_hidden_tiles(size, last.seen.grid) > 0

\* The tiles the running flood fill has revealed so far, the clicked tile
\* (revealed by primary_click before the call) not among them.
RevealedByFlood == RevealedOf(grid) \ RevealedOf(last.seen.grid)

\* C26: the flood fill started by a primary click never reveals a mine other
\* than the clicked tile itself: after every pass, no tile it has revealed
\* has a mine and the only mine among the expanded tiles can be the origin;
\* and when it ends, each tile it has revealed is adjacent to an expanded
\* tile, which has no adjacent mine.
C26_FloodRevealsNoMine ==
    last.op = "reveal_mines_from"
        => /\ RevealedByFlood \cap MinesOf(grid) = {}
           /\ Range(complete) \cap MinesOf(grid) \subseteq {FloodOrigin}
           /\ queue = <<>>
                => \A p \in RevealedByFlood :
                     \E z \in Range(complete) :
                        /\ p \in Range(adjacent_positions(size, z[1], z[2]))
                        /\ adjacent_mine_count(size, grid, z[1], z[2]) = 0

\* The flood fill has ended after it was started on a clicked mine without
\* adjacent mines: it has revealed tiles around it and another mine lies
\* hidden.
C26_Witness ==
    /\ last.op = "reveal_mines_from"
    /\ queue = <<>>
    /\ FloodOrigin \in MinesOf(grid)
    /\ RevealedByFlood # {}
    /\ MinesOf(grid) \ RevealedOf(grid) # {}

\* During play a mine becomes revealed only by a primary click directly on
\* it: in the grid the evaluator examines after a click at pos, no mine other
\* than the one at pos is revealed.
MineRevealedOnlyByClick ==
    [][\A pos \in ClickPositions(size) :
          (last'.op = "primary_click" /\ PrimaryClickAt(pos))
          => MinesOf(last'.seen.grid) \cap RevealedOf(last'.seen.grid)
                \subseteq {pos}]_vars

\* C27: at every handler boundary (after construction, a click, a restart,
\* the form's select or close action) the tile collection matches the size:
\* it has 2*size - 1 rows and row y holds size + min(y, 2*size - 2 - y) tiles.
C27_GridMatchesSize ==
    /\ Len(grid) = 2 * size - 1
    /\ \A y \in 0..(Len(grid) - 1) :
          Len(grid[y + 1]) = size + Min(y, 2 * size - 2 - y)

\* The form's select action has just replaced the board of the game window
\* by a larger one.
C27_Witness ==
    /\ last.op = "select_difficulty_clicked"
    /\ last.outcome = "returned"
    /\ size = MinSize + 1

\* C28: a restart_game that is rejected (the mine count exceeds the maximum
\* for the size) leaves the grid exactly as it was: size, mine_count, the
\* tiles with their revealed, flag and mine state, mines_have_been_generated
\* and the session clock are unchanged.
C28_RejectedRestartChangesNothing ==
    [][(last'.op = "restart_game" /\ last'.outcome = "ValueError")
        => UNCHANGED <<size, mine_count, grid, mines_have_been_generated,
                       start_time>>]_vars

\* A restart has been rejected in the middle of a game: mines are generated,
\* a tile is revealed, a flag stands and time has passed since the session
\* clock was started.
C28_Witness ==
    /\ last.op = "restart_game"
    /\ last.outcome = "ValueError"
    /\ mines_have_been_generated
    /\ RevealedOf(grid) # {}
    /\ FlagsOf(grid) # {}
    /\ now > start_time

\* The step is a restart: restart_game has rebuilt the grid, called from
\* outside or by the evaluator at the end of a game.
RestartStep ==
    \/ last'.op = "restart_game" /\ last'.outcome = "returned"
    \/ SessionEnded'

\* C29: within a session the revealed set only grows and
\* mines_have_been_generated never returns to false.  A step that is not a
\* restart un-reveals no tile, keeps the generated flag once it is set and
\* keeps the mines once they are generated; the click that ends a game
\* un-reveals nothing up to the grid it discloses; and what a restart leaves
\* is a fresh grid.
C29_RevealedOnlyGrows ==
    [][/\ ~RestartStep
            => /\ RevealedOf(grid) \subseteq RevealedOf(grid')
               /\ mines_have_been_generated => mines_have_been_generated'
               /\ mines_have_been_generated
                    => MinesOf(grid') = MinesOf(grid)
       /\ SessionEnded'
            => /\ RevealedOf(grid) \subseteq RevealedOf(last'.seen.grid)
               /\ RevealedOf(last'.seen.grid) \subseteq RevealedOf(last'.shown)
       /\ RestartStep => FreshGrid']_vars

\* A session in its third click or later: mines are generated, a flag stands
\* and at least three tiles are revealed after a primary click that did not
\* end the game.
C29_Witness ==
    /\ last.op = "primary_click"
    /\ last.outcome = "Ongoing"
    /\ mines_have_been_generated
    /\ FlagsOf(grid) # {}
    /\ Cardinality(RevealedOf(grid)) >= 3

\* C30: a secondary click changes at most the flag of the targeted tile: the
\* revealed and mine status of every tile, every other tile as a whole,
\* mines_have_been_generated, size, mine_count and the session clock are as
\* before.
C30_SecondaryClickFrame ==
    [][\A pos \in ClickPositions(size) :
          (last'.op = "secondary_click" /\ SecondaryClickAt(pos))
          => /\ size' = size
             /\ mine_count' = mine_count
             /\ mines_have_been_generated' = mines_have_been_generated
             /\ start_time' = start_time
             /\ GridCoords(grid') = GridCoords(grid)
             /\ RevealedOf(grid') = RevealedOf(grid)
             /\ MinesOf(grid') = MinesOf(grid)
             /\ \A p \in GridCoords(grid) \ {pos} :
                    TileAt(grid', p) = TileAt(grid, p)]_vars

\* A secondary click has taken the only flag off the board in a running
\* game with several tiles revealed.
C30_Witness ==
    /\ last.op = "secondary_click"
    /\ last.outcome = "Ongoing"
    /\ mines_have_been_generated
    /\ FlagsOf(grid) = {}
    /\ Cardinality(RevealedOf(grid)) >= 2

\* C31: a primary click on a valid unflagged tile that has adjacent mines
\* (once the mines are generated) reveals only that tile before the
\* evaluator runs, after a redraw of its own: in the grid the evaluator
\* examines the revealed set is the former one plus the clicked tile and the
\* flags are as before; if the game goes on, that grid is what the click
\* leaves.
C31_NumberedClickRevealsOne ==
    [][\A pos \in GridCoords(grid) :
          (/\ last'.op = "primary_click"
           /\ last'.outcome \in {"Ongoing", "Won", "Lost"}
           /\ ~has_flag(TileAt(grid, pos))
           /\ is_revealed(TileAt(last'.seen.grid, pos))
           /\ adjacent_mine_count(size, last'.seen.grid, pos[1], pos[2]) > 0
           /\ PrimaryClickAt(pos))
          => /\ RevealedOf(last'.seen.grid) = RevealedOf(grid) \cup {pos}
             /\ FlagsOf(last'.seen.grid) = FlagsOf(grid)
             /\ Len(last'.events) >= 2
             /\ last'.events[1] = "redraw"
             /\ last'.outcome = "Ongoing" => grid' = last'.seen.grid]_vars

\* The first primary click of a game has revealed a tile with adjacent mines
\* and nothing else, a flag standing elsewhere.
C31_Witness ==
    /\ last.op = "primary_click"
    /\ last.outcome = "Ongoing"
    /\ FlagsOf(grid) # {}
    /\ Cardinality(RevealedOf(grid)) = 1
    /\ \A p \in RevealedOf(grid) :
          adjacent_mine_count(size, grid, p[1], p[2]) > 0

RECURSIVE CanWin(_, _)
\* Clicks from the object st at time t lead the evaluator to Won: secondary
\* clicks take the flags off one by one, a first primary click generates the
\* mines (for some tile and some outcome of random.sample), and primary
\* clicks on hidden tiles without a mine follow until the evaluator reports
\* Won.  Every click is the handler itself; a click that does not do its
\* part makes this false.
CanWin(st, t) ==
    LET coords == Range(all_valid_coords(st.size))
        flagged == {p \in coords : has_flag(TileAt(st.grid, p))}
        hidden_safe == {p \in coords : /\ ~has_mine(TileAt(st.grid, p))
                                       /\ ~is_revealed(TileAt(st.grid, p))}
    IN  IF flagged # {}
          THEN LET p == CHOOSE p \in flagged : TRUE
                   r == secondary_click(st, p[1], p[2], t)
               IN  /\ r.outcome = "Ongoing"
                   /\ ~has_flag(TileAt(r.st.grid, p))
                   /\ CanWin(r.st, t)
        ELSE IF ~st.mines_have_been_generated
          THEN \E p \in coords :
                 \E sample \in ClickSamples(st, p) :
                    LET r == primary_click(st, p[1], p[2], sample, t)
                    IN  \/ r.outcome = "Won"
                        \/ r.outcome = "Ongoing" /\ CanWin(r.st, t)
        ELSE /\ hidden_safe # {}
             /\ LET p == CHOOSE p \in hidden_safe : TRUE
                    r == primary_click(st, p[1], p[2], <<>>, t)
                IN  \/ r.outcome = "Won"
                    \/ /\ r.outcome = "Ongoing"
                       /\ is_revealed(TileAt(r.st.grid, p))
                       /\ CanWin(r.st, t)

\* C32: from every reachable state of a grid with a valid mine count (every
\* state between two handlers is Ongoing) some finite sequence of primary
\* and secondary clicks leads the evaluator to Won, whatever flags stand.
C32_AlwaysWinnable ==
    (0 <= mine_count
        /\ mine_count <= highest_possible_mine_count_for_size(size))
        => CanWin(Self, now)

\* A running game in which a flag stands on a tile without a mine, next to
\* revealed tiles, and which can still be won.
C32_Witness ==
    /\ mines_have_been_generated
    /\ FlagsOf(grid) \ MinesOf(grid) # {}
    /\ RevealedOf(grid) # {}
    /\ CanWin(Self, now)

\* The step is a call of a click handler (the clock stands still during it).
ClickStep ==
    /\ now' = now
    /\ last'.op \in {"primary_click", "secondary_click"}

\* The fields of the HexGrid object are as before.
ObjectUnchanged ==
    UNCHANGED <<size, mine_count, grid, mines_have_been_generated,
                start_time>>

\* The last callback the last handler invoked was redraw.
EndsWithRedraw(events) ==
    events # <<>> /\ events[Len(events)] = "redraw"

\* C33 as stated: a click handler that changes the grid (a reveal, a flag
\* toggle, a restart) invokes redraw after its last change, and a click
\* handler that changes nothing invokes no redraw.
C33_RedrawIffChange ==
    [][ClickStep
        => /\ (~ObjectUnchanged \/ SessionEnded')
                => EndsWithRedraw(last'.events)
           /\ (ObjectUnchanged /\ ~SessionEnded')
                => "redraw" \notin Range(last'.events)]_vars

\* C33 amended: a click handler that gets as far as a reveal or a flag
\* toggle (it then runs the evaluator, which may restart) invokes redraw as
\* its last callback, after its last change -- also when the reveal changes
\* nothing because the tile was revealed already; a click handler that
\* returns before that (invalid position, flagged target of a primary click,
\* target of a secondary click that cannot be flagged, refused flag) changes
\* nothing and invokes no redraw.
C33_RedrawAfterAction ==
    /\ [](last.op \in {"primary_click", "secondary_click"}
            => /\ last.outcome \in {"Ongoing", "Won", "Lost"}
                    => EndsWithRedraw(last.events)
               /\ last.outcome \in {"returned", "refused"}
                    => "redraw" \notin Range(last.events)
               /\ last.outcome \in {"Ongoing", "Won", "Lost",
                                    "returned", "refused"})
    /\ [][(ClickStep /\ last'.outcome \in {"returned", "refused"})
            => ObjectUnchanged]_vars
    /\ [][(ClickStep /\ last'.outcome = "Ongoing")
            => grid' = last'.seen.grid]_vars

\* A primary click on a mine has ended the game: the evaluator's redraw of
\* the disclosed grid, the loss alert, the restart and a last redraw, which
\* shows the fresh grid the handler leaves behind.
C33_Witness ==
    /\ last.op = "primary_click"
    /\ last.outcome = "Lost"
    /\ last.events = <<"redraw", "alert_lost", "redraw">>
    /\ MinesOf(last.seen.grid) \subseteq RevealedOf(last.seen.grid)
    /\ FreshGrid

\* C34: the session clock is set to the current time by the click that
\* generates the mines and by every restart (a restart from outside, or the
\* evaluator's at the end of a game), and no other step changes it; so the
\* duration a win alert states is the time since the click that generated
\* the mines of the session, and 0 when that very click wins.
C34_ClockFromFirstClick ==
    /\ [][(ClickStep /\ ~mines_have_been_generated
                     /\ last'.seen.generated)
            => /\ last'.op = "primary_click"
               /\ start_time' = now
               /\ last'.outcome = "Won" => last'.elapsed = 0]_vars
    /\ [][(now' = now /\ RestartStep) => start_time' = now]_vars
    /\ [][(mines_have_been_generated /\ ClickStep)
            => /\ ~SessionEnded' => start_time' = start_time
               /\ last'.outcome = "Won"
                    => last'.elapsed = now - start_time]_vars
    /\ [][~(now' = now /\ (RestartStep \/ last'.seen.generated))
            => start_time' = start_time]_vars

\* A game that started after the clock had moved on goes on, a later click
\* not having touched the clock.
C34_Witness ==
    /\ last.op \in {"primary_click", "secondary_click"}
    /\ last.outcome = "Ongoing"
    /\ mines_have_been_generated
    /\ start_time = now
    /\ now > 0
    /\ Cardinality(RevealedOf(grid)) + Cardinality(FlagsOf(grid)) >= 2

\* C35: the win message words the elapsed time with the right number: the
\* minutes are left out exactly when there are none, the word is "minute"
\* exactly for one minute, and the word after the seconds is "second"
\* exactly when the seconds written are one second.
C35_WinMessageWording ==
    last.op = "duration"
        => LET elapsed == last.args[1]
               text == last.result
               mins == elapsed \div (60 * 4000)
           IN  /\ text.minute_word =
                    (IF mins = 0 THEN ""
                     ELSE IF mins = 1 THEN "minute" ELSE "minutes")
               /\ mins > 0 => text.minutes.whole = mins
               /\ text.second_word =
                    (IF /\ text.seconds.whole = 1
                        /\ \A i \in DOMAIN text.seconds.decimals :
                                text.seconds.decimals[i] = 0
                       THEN "second" ELSE "seconds")

SubscriptInRange(g, pos) ==
    /\ pos[2] + 1 \in DOMAIN g
    /\ pos[1] + 1 \in DOMAIN g[pos[2] + 1]

\* C37: in every reachable state, whatever click comes next, every
\* position the handler subscripts the grid with (in primary_click,
\* secondary_click, try_generate_mines, reveal_mines_from,
\* adjacent_mine_count and the evaluator) satisfies is_position_valid and
\* lies within the lists of the grid.
C37_SubscriptsValid ==
    \A pos \in ClickPositions(size) :
        /\ \A sample \in ClickSamples(Self, pos) :
             \A p \in primary_click_subscripts(Self, pos[1], pos[2], sample) :
                /\ is_position_valid(size, p[1], p[2])
                /\ SubscriptInRange(grid, p)
        /\ \A p \in secondary_click_subscripts(Self, pos[1], pos[2]) :
                /\ is_position_valid(size, p[1], p[2])
                /\ SubscriptInRange(grid, p)

\* A primary click has flooded from a tile without adjacent mines and
\* reached the corner (0, 0), whose possible neighbours are partly off the
\* board: the flood fill from the corner subscripts none of them.
C37_Witness ==
    /\ last.op = "primary_click"
    /\ last.outcome = "Ongoing"
    /\ is_revealed(TileAt(grid, <<0, 0>>))
    /\ ~has_mine(TileAt(grid, <<0, 0>>))
    /\ adjacent_mine_count(size, grid, 0, 0) = 0
    /\ <<-1, 0>> \in Range(possible_positions(size, 0, 0))
    /\ <<-1, 0>> \notin reveal_mines_from_subscripts(size, grid, 0, 0)
    /\ Cardinality(reveal_mines_from_subscripts(size, grid, 0, 0)) > 3

\* The tiles next to the tile A on a board of size s: the valid positions
\* other than A that count A among their adjacent positions.
NeighboursOf(s, A) ==
    {B \in Range(all_valid_coords(s)) \ {A} :
        A \in Range(adjacent_positions(s, B[1], B[2]))}

\* C38: adjacent_mine_count of a valid position is the number of distinct
\* tiles next to it that hold a mine, and lies in 0..6; the adjacent
\* positions it counts over are pairwise distinct and never include the
\* position itself.
C38_CountsDistinctNeighbours ==
    last.op = "adjacent_mine_count"
        => LET A == last.args
               adjacent == adjacent_positions(size, A[1], A[2])
           IN  /\ \A i, j \in DOMAIN adjacent :
                     adjacent[i] = adjacent[j] => i = j
               /\ \A i \in DOMAIN adjacent : adjacent[i] # A
               /\ last.result =
                     Cardinality(NeighboursOf(size, A) \cap MinesOf(grid))
               /\ last.result \in 0..6

\* Six mines around a tile of the board of the second smallest size.
C38_Witness ==
    /\ last.op = "adjacent_mine_count"
    /\ size = MinSize + 1
    /\ last.result = 6
    /\ has_mine(TileAt(grid, last.args))

\* The tile states: every combination of the three fields.
TileStates == [revealed : BOOLEAN, mine : BOOLEAN, flag : BOOLEAN]

\* C39: can_toggle_flag leaves every tile as it found it.  In every
\* reachable state, for every tile of the grid as it is and as it would be
\* in any other tile state, the grid after the call is the grid before it,
\* and the value returned is that of the comparison of the two colours.
C39_CanToggleFlagPure ==
    \A pos \in GridCoords(grid) :
        \A tile \in TileStates :
            LET g == PutTile(grid, pos, tile)
                call == can_toggle_flag_call(size, g, pos)
            IN  /\ call.grid = g
                /\ call.value = can_toggle_flag(size, g, pos)
                /\ tile = TileAt(grid, pos) => call.grid = grid

\* A secondary click has been handled on a grid that holds a flagged tile
\* (the call returns at once), a revealed tile (the simulated flag changes
\* no colour) and a hidden tile without flag (it does).
C39_Witness ==
    /\ last.op = "secondary_click"
    /\ last.outcome \in {"returned", "Ongoing"}
    /\ \E p \in FlagsOf(grid) : can_toggle_flag_call(size, grid, p).value
    /\ \E p \in RevealedOf(grid) :
            ~can_toggle_flag_call(size, grid, p).value
    /\ \E p \in GridCoords(grid) \ (FlagsOf(grid) \cup RevealedOf(grid)) :
            can_toggle_flag_call(size, grid, p).value

====
